---- MODULE Spec2Model ----
(***************************************************************************)
(* A model of the filter-language pipeline of report_dispatcher:           *)
(* the condition compiler and its optimizer rules, the batch planner, the  *)
(* lexer and the parser (src/src/sql_compiler.rs,                          *)
(* src/src/parser.rs, src/src/lexer.rs).                                   *)
(***************************************************************************)
EXTENDS Integers, Sequences, FiniteSets, TLC

VARIABLES
    query,            \* the AST handed to the compiler (ast.rs Query)
    entity,           \* the primary entity name passed to compile
    optimizer_config, \* SqlCompiler.optimizer.config
    batch_config,     \* SqlCompiler.batch_processor.config
    mappings,         \* SqlCompiler.table_mapper.mappings
    result,           \* the value returned by the last compile call
    batch_result,     \* the value returned by the last compile_batch_query call
    in_len,           \* length of the IN lists the caller writes
    input,            \* the text handed to the Lexer (a sequence of characters)
    position,         \* Lexer.position
    tokens,           \* the tokens the Lexer has produced so far
    parse_result,     \* the value returned by Parser::parse
    compilers,        \* CompilerRegistry.compilers: name to constructor
    created,          \* the name given to the last create call and its result
    calls             \* the compile calls in progress, one record per call

vars == <<query, entity, optimizer_config, batch_config, mappings, result,
          batch_result, in_len, input, position, tokens, parse_result,
          compilers, created, calls>>

compilerVars == <<optimizer_config, batch_config, mappings>>
lexVars == <<input, position, tokens, parse_result>>
serviceVars == <<compilers, created, calls>>

(***************************************************************************)
(* Bounds of the model and constants of the program.                       *)
(***************************************************************************)
MaxOps == 2
MaxInLen == 3
MaxOrThreshold == 3
MaxInThreshold == 2

DefaultMaxOrConditionsForIn == 5
DefaultMaxInValues == 1000
DefaultMaxBatchSize == 500

NoResult == [st |-> "none"]
Panic == [st |-> "panic"]

(***************************************************************************)
(* ast.rs: literals and conditions.                                        *)
(***************************************************************************)
LitNumber(n) == [t |-> "Number", v |-> n]
LitString(s) == [t |-> "String", v |-> s]
LitDate(d) == [t |-> "Date", v |-> d]
LitCurrentUser == [t |-> "CurrentUser"]

Comparison(op, value) == [tag |-> "Comparison", op |-> op, value |-> value]
And(l, r) == [tag |-> "And", left |-> l, right |-> r]
Or(l, r) == [tag |-> "Or", left |-> l, right |-> r]
Not(c) == [tag |-> "Not", inner |-> c]
Grouped(c) == [tag |-> "Grouped", inner |-> c]
In(values) == [tag |-> "In", values |-> values]
IsNull == [tag |-> "IsNull"]
IsNotNull == [tag |-> "IsNotNull"]

FieldFilter(f, c) == [field |-> f, condition |-> c]
CrossFilter(s, t, fs) == [source_entity |-> s, target_entity |-> t, filters |-> fs]
Query(bs, cs) == [base_filters |-> bs, cross_filters |-> cs]

(***************************************************************************)
(* DefaultTableMapper.                                                     *)
(***************************************************************************)
Entities == {"Issue", "Run"}

to_lowercase(e) == IF e = "Issue" THEN "issue" ELSE IF e = "Run" THEN "run" ELSE e

get_table_name(m, e) == IF e \in DOMAIN m THEN m[e] ELSE to_lowercase(e)

EmptyMapping == [e \in {} |-> ""]

(***************************************************************************)
(* sea-query values and expressions built by the compiler.                 *)
(***************************************************************************)
ValString(s) == [t |-> "String", v |-> s]
ValBigInt(n) == [t |-> "BigInt", v |-> n]

literal_to_value(l) ==
    IF l.t = "String" THEN ValString(l.v)
    ELSE IF l.t = "Number" THEN ValBigInt(l.v)
    ELSE IF l.t = "Date" THEN
        IF l.v = "today" THEN ValString("CURRENT_DATE")
        ELSE IF l.v = "yesterday" THEN ValString("CURRENT_DATE - INTERVAL '1 day'")
        ELSE IF l.v = "tomorrow" THEN ValString("CURRENT_DATE + INTERVAL '1 day'")
        ELSE ValString(l.v)
    ELSE ValString("CURRENT_USER")

ExprCmp(col, op, val) == [k |-> "cmp", col |-> col, op |-> op, val |-> val]
ExprIn(col, vals) == [k |-> "in", col |-> col, vals |-> vals]
ExprAnd(l, r) == [k |-> "and", left |-> l, right |-> r]
ExprOr(l, r) == [k |-> "or", left |-> l, right |-> r]
ExprNot(e) == [k |-> "not", inner |-> e]
ExprIsNull(col) == [k |-> "is_null", col |-> col]
ExprIsNotNull(col) == [k |-> "is_not_null", col |-> col]
ExprTrue == [k |-> "true"]

OrToIn(field, n) == [kind |-> "OrToIn", field |-> field, value_count |-> n]
InToUnion(field, total, count) ==
    [kind |-> "InToUnion", field |-> field, total_values |-> total, union_count |-> count]

MapSeq(s, Op(_)) == [i \in 1..Len(s) |-> Op(s[i])]

compile_comparison(field, op, value) == ExprCmp(field, op, literal_to_value(value))

\* slice::chunks_exact in place of slice::chunks: the shorter last chunk is
\* left out
RECURSIVE chunks_exact(_, _)
chunks_exact(s, n) ==
    IF Len(s) < n \/ Len(s) = 0 THEN <<>>
    ELSE <<SubSeq(s, 1, n)>> \o chunks_exact(SubSeq(s, n + 1, Len(s)), n)

\* slice::chunks(n) for n > 0
RECURSIVE chunks(_, _)
chunks(s, n) ==
    IF Len(s) = 0 THEN <<>>
    ELSE IF Len(s) <= n THEN <<s>>
    ELSE <<SubSeq(s, 1, n)>> \o chunks(SubSeq(s, n + 1, Len(s)), n)

\* Iterator::reduce(|acc, e| acc.or(e)) / acc.and(e) over a non-empty sequence
RECURSIVE reduce_or(_)
reduce_or(es) ==
    IF Len(es) = 1 THEN es[1]
    ELSE ExprOr(reduce_or(SubSeq(es, 1, Len(es) - 1)), es[Len(es)])

RECURSIVE reduce_and(_)
reduce_and(es) ==
    IF Len(es) = 1 THEN es[1]
    ELSE ExprAnd(reduce_and(SubSeq(es, 1, Len(es) - 1)), es[Len(es)])

combine_conditions_with_and(es) == IF Len(es) = 0 THEN ExprTrue ELSE reduce_and(es)

\* values.chunks(0) panics
split_large_in_to_union(field, values, config) ==
    IF config.max_in_values = 0 THEN Panic
    ELSE [st |-> "ok",
          expr |-> reduce_or(MapSeq(chunks(values, config.max_in_values),
                                    LAMBDA chunk : ExprIn(field, chunk))),
          opt |-> InToUnion(field, Len(values),
                            Len(chunks(values, config.max_in_values)))]

\* collect_equality_values visiting the right operand of an Or first
RECURSIVE collect_equality_values_right_first(_)
collect_equality_values_right_first(c) ==
    IF c.tag = "Comparison" THEN (IF c.op = "Eq" THEN <<c.value>> ELSE <<>>)
    ELSE IF c.tag = "Or" THEN
        collect_equality_values_right_first(c.right)
            \o collect_equality_values_right_first(c.left)
    ELSE IF c.tag = "Grouped" THEN collect_equality_values_right_first(c.inner)
    ELSE <<>>

RECURSIVE collect_equality_values(_)
collect_equality_values(c) ==
    IF c.tag = "Comparison" THEN (IF c.op = "Eq" THEN <<c.value>> ELSE <<>>)
    ELSE IF c.tag = "Or" THEN
        collect_equality_values(c.left) \o collect_equality_values(c.right)
    ELSE IF c.tag = "Grouped" THEN collect_equality_values(c.inner)
    ELSE <<>>

extract_equality_values_from_or(field, c) == collect_equality_values(c)

\* the rule applied to the equality values collected from an Or node
or_to_in(field, equality_values, config) ==
    IF Len(equality_values) >= config.max_or_conditions_for_in
    THEN [some |-> TRUE,
          expr |-> ExprIn(field, MapSeq(equality_values, literal_to_value)),
          opt |-> OrToIn(field, Len(equality_values))]
    ELSE [some |-> FALSE]

try_optimize_or_to_in(field, c, config) ==
    or_to_in(field, extract_equality_values_from_or(field, c), config)

Ok(expr, opts) == [st |-> "ok", expr |-> expr, opts |-> opts]

\* the branches of the match in compile_condition, given the results of
\* the recursive calls (a panic in a call ends the whole compile)
\* an And branch that logs the right operand first
and_branch_right_first(l, r) ==
    IF l.st = "panic" \/ r.st = "panic" THEN Panic
    ELSE Ok(ExprAnd(l.expr, r.expr), r.opts \o l.opts)

and_branch(l, r) ==
    IF l.st = "panic" \/ r.st = "panic" THEN Panic
    ELSE Ok(ExprAnd(l.expr, r.expr), l.opts \o r.opts)

or_branch(o, l, r) ==
    IF o.some THEN Ok(o.expr, <<o.opt>>)
    ELSE IF l.st = "panic" \/ r.st = "panic" THEN Panic
    ELSE Ok(ExprOr(l.expr, r.expr), l.opts \o r.opts)

\* a Not branch that cancels a double negation
not_branch_simplified(i) ==
    IF i.st = "panic" THEN Panic
    ELSE IF i.expr.k = "not" THEN Ok(i.expr.inner, i.opts)
    ELSE Ok(ExprNot(i.expr), i.opts)

not_branch(i) == IF i.st = "panic" THEN Panic ELSE Ok(ExprNot(i.expr), i.opts)

\* `self.compile_condition(field, inner)?.0`: the inner log is dropped
grouped_branch(i) == IF i.st = "panic" THEN Panic ELSE Ok(i.expr, <<>>)

split_branch(s) == IF s.st = "panic" THEN Panic ELSE Ok(s.expr, <<s.opt>>)

in_branch(field, in_values, config) ==
    IF Len(in_values) > config.max_in_values
    THEN split_branch(split_large_in_to_union(field, in_values, config))
    ELSE Ok(ExprIn(field, in_values), <<>>)

RECURSIVE compile_condition(_, _, _)
compile_condition(field, c, config) ==
    IF c.tag = "Comparison" THEN Ok(compile_comparison(field, c.op, c.value), <<>>)
    ELSE IF c.tag = "And" THEN
        and_branch(compile_condition(field, c.left, config),
                   compile_condition(field, c.right, config))
    ELSE IF c.tag = "Or" THEN
        or_branch(try_optimize_or_to_in(field, c, config),
                  compile_condition(field, c.left, config),
                  compile_condition(field, c.right, config))
    ELSE IF c.tag = "Not" THEN not_branch(compile_condition(field, c.inner, config))
    ELSE IF c.tag = "Grouped" THEN
        grouped_branch(compile_condition(field, c.inner, config))
    ELSE IF c.tag = "In" THEN
        in_branch(field, MapSeq(c.values, literal_to_value), config)
    ELSE IF c.tag = "IsNull" THEN Ok(ExprIsNull(field), <<>>)
    ELSE Ok(ExprIsNotNull(field), <<>>)

\* qualified column: the table (or join alias) and the field
TableRef(name) == [name |-> name, alias |-> 0]
JoinedTable(n) == [name |-> "joined_table", alias |-> n]
Qualified(tbl, f) == [tbl |-> tbl, col |-> f]
\* a name with no table in front of it
Unqualified(f) == [tbl |-> [name |-> "", alias |-> 0], col |-> f]

\* one turn of the loop over the filters: the condition is compiled and
\* its predicate and log are appended
filter_step(before, c) ==
    IF before.st = "panic" \/ c.st = "panic" THEN Panic
    ELSE [st |-> "ok", conditions |-> Append(before.conditions, c.expr),
          opts |-> before.opts \o c.opts]

\* the loop over the filters of compile_field_filters / compile_cross_filter
RECURSIVE compile_filter_loop(_, _, _)
compile_filter_loop(filters, tbl, config) ==
    IF Len(filters) = 0 THEN [st |-> "ok", conditions |-> <<>>, opts |-> <<>>]
    ELSE filter_step(
             compile_filter_loop(SubSeq(filters, 1, Len(filters) - 1), tbl, config),
             compile_condition(Qualified(tbl, filters[Len(filters)].field),
                               filters[Len(filters)].condition, config))

combined(r) ==
    IF r.st = "panic" THEN Panic
    ELSE Ok(combine_conditions_with_and(r.conditions), r.opts)

compile_field_filters(filters, ent, compiler) ==
    combined(compile_filter_loop(filters,
                                 TableRef(get_table_name(compiler.mappings, ent)),
                                 compiler.optimizer_config))

\* compile_cross_filter without the increment of join_index
compile_cross_filter_unincremented(cross_filter, join_index, compiler) ==
    combined(compile_filter_loop(cross_filter.filters, JoinedTable(join_index),
                                 compiler.optimizer_config))

\* join_index is incremented first; the caller reads it back
compile_cross_filter(cross_filter, join_index, compiler) ==
    combined(compile_filter_loop(cross_filter.filters, JoinedTable(join_index + 1),
                                 compiler.optimizer_config))

Join(table, n, primary) ==
    [table |-> table, alias |-> n,
     on_left |-> Qualified(TableRef(primary), "id"),
     on_right |-> Qualified(JoinedTable(n), "id")]

\* one turn of the loop over query.cross_filters of compile
cross_step(before, c, target_table, primary_table) ==
    IF before.st = "panic" \/ c.st = "panic" THEN Panic
    ELSE [st |-> "ok",
          join_index |-> before.join_index + 1,
          joins |-> Append(before.joins,
                           Join(target_table, before.join_index + 1, primary_table)),
          wheres |-> Append(before.wheres, c.expr),
          opts |-> before.opts \o c.opts]

\* the loop over query.cross_filters of compile; the n-th cross filter is
\* compiled with join_index n - 1
RECURSIVE compile_cross_loop(_, _, _)
compile_cross_loop(cross_filters, ent, compiler) ==
    IF Len(cross_filters) = 0
    THEN [st |-> "ok", join_index |-> 0, joins |-> <<>>, wheres |-> <<>>, opts |-> <<>>]
    ELSE cross_step(
             compile_cross_loop(SubSeq(cross_filters, 1, Len(cross_filters) - 1),
                                ent, compiler),
             compile_cross_filter(cross_filters[Len(cross_filters)],
                                  Len(cross_filters) - 1, compiler),
             get_table_name(compiler.mappings,
                            cross_filters[Len(cross_filters)].target_entity),
             get_table_name(compiler.mappings, ent))

\* the statement and the log, from the compiled base and cross filters
compile_result(table_name, has_base, base, cross) ==
    IF base.st = "panic" \/ cross.st = "panic" THEN Panic
    ELSE [st |-> "ok",
          sql |-> [from |-> table_name,
                   joins |-> cross.joins,
                   wheres |-> (IF has_base THEN <<base.expr>> ELSE <<>>) \o cross.wheres],
          optimizations |-> (IF has_base THEN base.opts ELSE <<>>) \o cross.opts]

\* QueryCompiler::compile for SqlCompiler; the statement is kept structured
compile(compiler, q, ent) ==
    compile_result(get_table_name(compiler.mappings, ent),
                   Len(q.base_filters) # 0,
                   compile_field_filters(q.base_filters, ent, compiler),
                   compile_cross_loop(q.cross_filters, ent, compiler))

SqlCompilerNew ==
    [optimizer_config |-> [max_or_conditions_for_in |-> DefaultMaxOrConditionsForIn,
                           max_in_values |-> DefaultMaxInValues],
     batch_config |-> [max_batch_size |-> DefaultMaxBatchSize,
                       enable_batch_processing |-> TRUE],
     mappings |-> EmptyMapping]

Self == [optimizer_config |-> optimizer_config, batch_config |-> batch_config,
         mappings |-> mappings]

\* HashMap::insert: the entry of key k is set, or replaced
insert(map, k, v) == [x \in DOMAIN map \cup {k} |-> IF x = k THEN v ELSE map[x]]

\* CompilerRegistry::new: "sql" and "default" are registered with the
\* constructor || Box::new(SqlCompiler::new())
CompilerRegistryNew ==
    insert(insert(EmptyMapping, "sql", "SqlCompiler::new"), "default", "SqlCompiler::new")

\* the registry as new() leaves it, no create call and no call in progress
Idle ==
    /\ compilers = CompilerRegistryNew
    /\ created = NoResult
    /\ calls = <<>>

(***************************************************************************)
(* The caller writing one condition tree, node by node.                    *)
(***************************************************************************)
RECURSIVE OpCount(_)
OpCount(c) ==
    IF c.tag \in {"And", "Or"} THEN 1 + OpCount(c.left) + OpCount(c.right)
    ELSE IF c.tag \in {"Not", "Grouped"} THEN 1 + OpCount(c.inner)
    ELSE 0

RECURSIVE EqCount(_)
EqCount(c) ==
    IF c.tag \in {"And", "Or"} THEN EqCount(c.left) + EqCount(c.right)
    ELSE IF c.tag \in {"Not", "Grouped"} THEN EqCount(c.inner)
    ELSE IF c.tag = "Comparison" /\ c.op = "Eq" THEN 1
    ELSE 0

NumberList(n) == [i \in 1..n |-> LitNumber(i)]

\* the leaves the caller can write next to the condition c
Leaves(n, k) ==
    { Comparison("Eq", LitNumber(k + 1)), Comparison("Gt", LitNumber(1)),
      IsNull, In(NumberList(n)) }

TheCondition == query.base_filters[1].condition

SetCondition(c) ==
    /\ query' = Query(<<FieldFilter("status", c)>>, <<>>)
    /\ UNCHANGED <<serviceVars, entity, compilerVars, result, batch_result, in_len, lexVars>>

CanGrow == /\ result = NoResult
           /\ Len(query.base_filters) = 1
           /\ OpCount(TheCondition) < MaxOps

WriteOr ==
    /\ CanGrow
    /\ \E leaf \in Leaves(in_len, EqCount(TheCondition)) :
          SetCondition(Or(TheCondition, leaf))

\* a literal written in front of the condition: `v OR <condition>`
WriteOrLeft ==
    /\ CanGrow
    /\ SetCondition(Or(Comparison("Eq", LitNumber(EqCount(TheCondition) + 1)),
                       TheCondition))

WriteAnd ==
    /\ CanGrow
    /\ \E leaf \in Leaves(in_len, EqCount(TheCondition)) :
          SetCondition(And(TheCondition, leaf))

WriteNot == CanGrow /\ SetCondition(Not(TheCondition))

WriteGrouped == CanGrow /\ SetCondition(Grouped(TheCondition))

Compile ==
    /\ result = NoResult
    /\ result' = compile(Self, query, entity)
    /\ UNCHANGED <<serviceVars, query, entity, compilerVars, batch_result, in_len, lexVars>>

InitCompile ==
    /\ in_len \in 0..MaxInLen
    /\ \E leaf \in Leaves(in_len, 0) : query = Query(<<FieldFilter("status", leaf)>>, <<>>)
    /\ entity = "Issue"
    /\ optimizer_config \in [max_or_conditions_for_in : 0..MaxOrThreshold,
                             max_in_values : 0..MaxInThreshold]
    /\ batch_config = SqlCompilerNew.batch_config
    /\ mappings = EmptyMapping
    /\ result = NoResult
    /\ batch_result = NoResult
    /\ input = <<>>
    /\ position = 0
    /\ tokens = <<>>
    /\ parse_result = NoResult
    /\ Idle

NextCompile == WriteOr \/ WriteOrLeft \/ WriteAnd \/ WriteNot \/ WriteGrouped \/ Compile

SpecCompile == InitCompile /\ [][NextCompile]_vars

(***************************************************************************)
(* Truth of a condition and of a compiled predicate for one field value    *)
(* (three-valued: "T", "F", "U" for a comparison with NULL).               *)
(***************************************************************************)
NullValue == [t |-> "Null"]
FieldValues == {NullValue} \cup {ValBigInt(n) : n \in 0..(MaxOps + 2)}

Not3(a) == IF a = "T" THEN "F" ELSE IF a = "F" THEN "T" ELSE "U"
And3(a, b) == IF a = "F" \/ b = "F" THEN "F"
              ELSE IF a = "T" /\ b = "T" THEN "T" ELSE "U"
Or3(a, b) == IF a = "T" \/ b = "T" THEN "T"
             ELSE IF a = "F" /\ b = "F" THEN "F" ELSE "U"
Bool3(b) == IF b THEN "T" ELSE "F"

Relation(op, a, b) ==
    IF op = "Eq" THEN a = b
    ELSE IF op = "NotEq" THEN a # b
    ELSE IF op = "Gt" THEN a > b
    ELSE IF op = "Lt" THEN a < b
    ELSE IF op = "Gte" THEN a >= b
    ELSE a <= b

Member3(x, vals) ==
    IF Len(vals) = 0 THEN "F"
    ELSE IF x = NullValue THEN "U"
    ELSE Bool3(\E i \in 1..Len(vals) : vals[i] = x)

\* the source condition, read as the boolean formula it denotes
RECURSIVE EvalCondition(_, _)
EvalCondition(c, x) ==
    IF c.tag = "And" THEN And3(EvalCondition(c.left, x), EvalCondition(c.right, x))
    ELSE IF c.tag = "Or" THEN Or3(EvalCondition(c.left, x), EvalCondition(c.right, x))
    ELSE IF c.tag = "Not" THEN Not3(EvalCondition(c.inner, x))
    ELSE IF c.tag = "Grouped" THEN EvalCondition(c.inner, x)
    ELSE IF c.tag = "Comparison" THEN
        (IF x = NullValue THEN "U" ELSE Bool3(Relation(c.op, x.v, c.value.v)))
    ELSE IF c.tag = "In" THEN Member3(x, MapSeq(c.values, literal_to_value))
    ELSE IF c.tag = "IsNull" THEN Bool3(x = NullValue)
    ELSE Bool3(x # NullValue)

\* the compiled predicate, as the database evaluates it
RECURSIVE EvalExpr(_, _)
EvalExpr(e, x) ==
    IF e.k = "and" THEN And3(EvalExpr(e.left, x), EvalExpr(e.right, x))
    ELSE IF e.k = "or" THEN Or3(EvalExpr(e.left, x), EvalExpr(e.right, x))
    ELSE IF e.k = "not" THEN Not3(EvalExpr(e.inner, x))
    ELSE IF e.k = "cmp" THEN
        (IF x = NullValue THEN "U" ELSE Bool3(Relation(e.op, x.v, e.val.v)))
    ELSE IF e.k = "in" THEN Member3(x, e.vals)
    ELSE IF e.k = "is_null" THEN Bool3(x = NullValue)
    ELSE IF e.k = "is_not_null" THEN Bool3(x # NullValue)
    ELSE "T"

\* the translation of a condition with no rewrite applied
RECURSIVE Plain(_, _)
Plain(field, c) ==
    IF c.tag = "And" THEN ExprAnd(Plain(field, c.left), Plain(field, c.right))
    ELSE IF c.tag = "Or" THEN ExprOr(Plain(field, c.left), Plain(field, c.right))
    ELSE IF c.tag = "Not" THEN ExprNot(Plain(field, c.inner))
    ELSE IF c.tag = "Grouped" THEN Plain(field, c.inner)
    ELSE IF c.tag = "Comparison" THEN ExprCmp(field, c.op, literal_to_value(c.value))
    ELSE IF c.tag = "In" THEN ExprIn(field, MapSeq(c.values, literal_to_value))
    ELSE IF c.tag = "IsNull" THEN ExprIsNull(field)
    ELSE ExprIsNotNull(field)

\* every leaf reached through nested Or and Grouped nodes is an Eq comparison
RECURSIVE AllEqLeaves(_)
AllEqLeaves(c) ==
    IF c.tag = "Or" THEN AllEqLeaves(c.left) /\ AllEqLeaves(c.right)
    ELSE IF c.tag = "Grouped" THEN AllEqLeaves(c.inner)
    ELSE c.tag = "Comparison" /\ c.op = "Eq"

\* the literals of a condition in left-to-right source order
RECURSIVE LiteralsInOrder(_)
LiteralsInOrder(c) ==
    IF c.tag \in {"And", "Or"} THEN LiteralsInOrder(c.left) \o LiteralsInOrder(c.right)
    ELSE IF c.tag \in {"Not", "Grouped"} THEN LiteralsInOrder(c.inner)
    ELSE IF c.tag = "Comparison" THEN <<c.value>>
    ELSE IF c.tag = "In" THEN c.values
    ELSE <<>>

Ceil(n, m) == (n + m - 1) \div m

StatusField == Qualified(TableRef(get_table_name(mappings, entity)), "status")

Compiled == result.st = "ok" /\ Len(query.base_filters) = 1 /\ Len(query.cross_filters) = 0

ThePredicate == result.sql.wheres[1]

(***************************************************************************)
(* Claims about the condition compiler and the optimizer rules,            *)
(* checked under SpecCompile.                                              *)
(***************************************************************************)

\* C1: the predicate produced by compile_condition has, for every field
\* value, the truth value of the source condition (And = conjunction,
\* Or = disjunction, Not = negation, Grouped = inner, In = membership ...).
C1_PredicateEquivalent ==
    Compiled =>
        \A x \in FieldValues : EvalExpr(ThePredicate, x) = EvalCondition(TheCondition, x)

\* C2: an Or node whose flattening reaches a leaf that is not an Eq
\* comparison is not rewritten: no OrToIn entry is logged for it and it
\* compiles to the disjunction of its two compiled operands.
C2_OrToInAllOrNothing ==
    (Compiled /\ TheCondition.tag = "Or" /\ ~AllEqLeaves(TheCondition)) =>
        LET l == compile_condition(StatusField, TheCondition.left, optimizer_config)
            r == compile_condition(StatusField, TheCondition.right, optimizer_config)
        IN /\ ThePredicate = ExprOr(l.expr, r.expr)
           /\ result.optimizations = l.opts \o r.opts

\* C3: an Or chain whose leaves are all Eq comparisons, with k values:
\* k >= max_or_conditions_for_in gives exactly one OrToIn{field, k} entry and
\* one membership test over the k values in source order; k < the threshold
\* gives no entry and the nested disjunction.
C3_OrChainThreshold ==
    (Compiled /\ TheCondition.tag = "Or" /\ AllEqLeaves(TheCondition)) =>
        LET values == LiteralsInOrder(TheCondition)
            k == Len(values)
        IN IF k >= optimizer_config.max_or_conditions_for_in
           THEN /\ result.optimizations = <<OrToIn(StatusField, k)>>
                /\ ThePredicate = ExprIn(StatusField, MapSeq(values, literal_to_value))
           ELSE /\ result.optimizations = <<>>
                /\ ThePredicate = Plain(StatusField, TheCondition)
                /\ ThePredicate.k = "or"

C3_Witness ==
    /\ Compiled /\ TheCondition.tag = "Or" /\ AllEqLeaves(TheCondition)
    /\ Len(LiteralsInOrder(TheCondition)) = 3
    /\ optimizer_config.max_or_conditions_for_in = 3
    /\ result.optimizations = <<OrToIn(StatusField, 3)>>

\* the operands of a disjunction, left to right
RECURSIVE Disjuncts(_)
Disjuncts(e) == IF e.k = "or" THEN Disjuncts(e.left) \o Disjuncts(e.right) ELSE <<e>>

RECURSIVE ConcatVals(_)
ConcatVals(es) ==
    IF Len(es) = 0 THEN <<>>
    ELSE ConcatVals(SubSeq(es, 1, Len(es) - 1)) \o es[Len(es)].vals

\* C4: In(values) with n values and max_in_values = m >= 1: n > m gives the
\* disjunction of ceil(n/m) membership tests over contiguous chunks of m
\* values (the last may be shorter) that concatenate to the original list,
\* and one InToUnion{field, n, ceil(n/m)} entry; n <= m gives one
\* membership test and no entry.
C4_InSplit ==
    (Compiled /\ TheCondition.tag = "In" /\ optimizer_config.max_in_values >= 1) =>
        LET values == MapSeq(TheCondition.values, literal_to_value)
            n == Len(values)
            m == optimizer_config.max_in_values
            ds == Disjuncts(ThePredicate)
        IN IF n > m
           THEN /\ Len(ds) = Ceil(n, m)
                /\ \A i \in 1..Len(ds) :
                      /\ ds[i].k = "in" /\ ds[i].col = StatusField
                      /\ Len(ds[i].vals) >= 1
                      /\ i < Len(ds) => Len(ds[i].vals) = m
                      /\ Len(ds[i].vals) <= m
                /\ ConcatVals(ds) = values
                /\ result.optimizations = <<InToUnion(StatusField, n, Ceil(n, m))>>
           ELSE /\ ThePredicate = ExprIn(StatusField, values)
                /\ result.optimizations = <<>>

C4_Witness ==
    /\ Compiled /\ TheCondition.tag = "In"
    /\ Len(TheCondition.values) = 3
    /\ optimizer_config.max_in_values = 2
    /\ Len(Disjuncts(ThePredicate)) = 2
    /\ result.optimizations = <<InToUnion(StatusField, 3, 2)>>

\* the rewrites compile_condition applies to a condition, in traversal
\* order, those below a Grouped node included
RECURSIVE AppliedRewrites(_, _, _)
AppliedRewrites(field, c, config) ==
    IF c.tag = "And" THEN
        AppliedRewrites(field, c.left, config) \o AppliedRewrites(field, c.right, config)
    ELSE IF c.tag = "Or" THEN
        IF try_optimize_or_to_in(field, c, config).some
        THEN <<OrToIn(field, Len(collect_equality_values(c)))>>
        ELSE AppliedRewrites(field, c.left, config)
                 \o AppliedRewrites(field, c.right, config)
    ELSE IF c.tag \in {"Not", "Grouped"} THEN AppliedRewrites(field, c.inner, config)
    ELSE IF c.tag = "In" /\ Len(c.values) > config.max_in_values THEN
        <<InToUnion(field, Len(c.values), Ceil(Len(c.values), config.max_in_values))>>
    ELSE <<>>

\* C5: the optimization log holds one entry for every rewrite applied in
\* the condition tree, also below a Grouped node, and no other entry.
C5_LogReportsEveryRewrite ==
    Compiled => result.optimizations = AppliedRewrites(StatusField, TheCondition,
                                                       optimizer_config)

(***************************************************************************)
(* DefaultBatchProcessor.                                                  *)
(***************************************************************************)
None == [some |-> FALSE]
Some(v) == [some |-> TRUE, v |-> v]

RECURSIVE extract_large_in_from_condition(_, _, _)
extract_large_in_from_condition(field, c, max_batch_size) ==
    IF c.tag = "In" /\ Len(c.values) > max_batch_size THEN
        [some |-> TRUE, field |-> field, values |-> c.values]
    ELSE IF c.tag \in {"And", "Or"} THEN
        LET l == extract_large_in_from_condition(field, c.left, max_batch_size) IN
        IF l.some THEN l
        ELSE extract_large_in_from_condition(field, c.right, max_batch_size)
    ELSE IF c.tag \in {"Not", "Grouped"} THEN
        extract_large_in_from_condition(field, c.inner, max_batch_size)
    ELSE None

\* one turn of the loops of find_large_in_conditions
large_step(before, e) ==
    IF e.some THEN Append(before, [field |-> e.field, values |-> e.values]) ELSE before

\* the loop over a list of field filters of find_large_in_conditions
RECURSIVE large_in_of_filters(_, _)
large_in_of_filters(filters, max_batch_size) ==
    IF Len(filters) = 0 THEN <<>>
    ELSE large_step(
             large_in_of_filters(SubSeq(filters, 1, Len(filters) - 1), max_batch_size),
             extract_large_in_from_condition(filters[Len(filters)].field,
                                             filters[Len(filters)].condition,
                                             max_batch_size))

RECURSIVE large_in_of_cross_filters(_, _)
large_in_of_cross_filters(cross_filters, max_batch_size) ==
    IF Len(cross_filters) = 0 THEN <<>>
    ELSE large_in_of_cross_filters(SubSeq(cross_filters, 1, Len(cross_filters) - 1),
                                   max_batch_size)
             \o large_in_of_filters(cross_filters[Len(cross_filters)].filters,
                                    max_batch_size)

find_large_in_conditions(q, max_batch_size) ==
    large_in_of_filters(q.base_filters, max_batch_size)
        \o large_in_of_cross_filters(q.cross_filters, max_batch_size)

\* values.chunks(0) panics; callers pass a non-empty list
create_batches(values, batch_size) ==
    IF batch_size = 0 THEN Panic
    ELSE [st |-> "ok", batches |-> chunks(values, batch_size)]

\* the body of the function is empty: the query is left as it is
replace_in_condition_with_batch(q, field, batch) == q

\* all_queries.push(result.sql); all_optimizations.extend(result.optimizations)
collect_step(before, r) ==
    IF before.st = "panic" \/ r.st = "panic" THEN Panic
    ELSE [st |-> "ok", queries |-> Append(before.queries, r.sql),
          optimizations |-> before.optimizations \o r.optimizations]

\* the statements of one oversized condition: the inner loop of compile_batch
RECURSIVE compile_batches(_, _, _, _)
compile_batches(q, ent, field, batches) ==
    IF Len(batches) = 0 THEN [st |-> "ok", queries |-> <<>>, optimizations |-> <<>>]
    ELSE collect_step(
             compile_batches(q, ent, field, SubSeq(batches, 1, Len(batches) - 1)),
             compile(SqlCompilerNew,
                     replace_in_condition_with_batch(q, field, batches[Len(batches)]),
                     ent))

batches_of(q, ent, field, b) ==
    IF b.st = "panic" THEN Panic ELSE compile_batches(q, ent, field, b.batches)

concat_step(before, r) ==
    IF before.st = "panic" \/ r.st = "panic" THEN Panic
    ELSE [st |-> "ok", queries |-> before.queries \o r.queries,
          optimizations |-> before.optimizations \o r.optimizations]

\* the outer loop of compile_batch, over the oversized conditions found
RECURSIVE compile_large_conditions(_, _, _, _)
compile_large_conditions(q, ent, large, max_batch_size) ==
    IF Len(large) = 0 THEN [st |-> "ok", queries |-> <<>>, optimizations |-> <<>>]
    ELSE concat_step(
             compile_large_conditions(q, ent, SubSeq(large, 1, Len(large) - 1),
                                      max_batch_size),
             batches_of(q, ent, large[Len(large)].field,
                        create_batches(large[Len(large)].values, max_batch_size)))

\* the batched result with the per-chunk logs left out of the merged log
batched_result_unmerged(all, config) ==
    IF all.st = "panic" THEN Panic
    ELSE [st |-> "ok",
          queries |-> all.queries,
          optimizations |-> <<InToUnion(Unqualified("batch_processing"),
                                        Len(all.queries), Len(all.queries))>>,
          total_estimated_rows |-> Some(Len(all.queries) * config.max_batch_size)]

\* the result of the batched case, from the statements and logs collected
batched_result(all, config) ==
    IF all.st = "panic" THEN Panic
    ELSE [st |-> "ok",
          queries |-> all.queries,
          optimizations |-> Append(all.optimizations,
              InToUnion(Unqualified("batch_processing"), Len(all.queries),
                        Len(all.queries))),
          total_estimated_rows |-> Some(Len(all.queries) * config.max_batch_size)]

\* the result of the two cases that delegate to the plain compile path
single_result(r) ==
    IF r.st = "panic" THEN Panic
    ELSE [st |-> "ok", queries |-> <<r.sql>>, optimizations |-> r.optimizations,
          total_estimated_rows |-> None]

batch_or_single(q, ent, config, large) ==
    IF Len(large) = 0 THEN single_result(compile(SqlCompilerNew, q, ent))
    ELSE batched_result(compile_large_conditions(q, ent, large, config.max_batch_size),
                        config)

compile_batch(q, ent, config) ==
    IF ~config.enable_batch_processing
    THEN single_result(compile(SqlCompilerNew, q, ent))
    ELSE batch_or_single(q, ent, config,
                         find_large_in_conditions(q, config.max_batch_size))

compile_batch_query(compiler, q, ent) == compile_batch(q, ent, compiler.batch_config)

(***************************************************************************)
(* Queries with several filters, compiled through the plain path and       *)
(* through the batch path of one SqlCompiler.                              *)
(***************************************************************************)
MaxBatchSize == 2

RECURSIVE OrChain(_)
OrChain(k) ==
    IF k = 1 THEN Comparison("Eq", LitNumber(1))
    ELSE Or(OrChain(k - 1), Comparison("Eq", LitNumber(k)))

BatchConditions ==
    {Comparison("Eq", LitNumber(1))}
        \cup {In(NumberList(n)) : n \in 1..MaxInLen}
        \cup {Grouped(In(NumberList(MaxInLen))),
              And(In(NumberList(MaxInLen)), OrChain(DefaultMaxOrConditionsForIn))}

BaseFilterLists ==
    {<<>>}
        \cup {<<FieldFilter("status", c)>> : c \in BatchConditions}
        \cup {<<FieldFilter("status", c), FieldFilter("priority", d)>> :
                 c \in BatchConditions, d \in BatchConditions}

CrossConditions == {Comparison("Eq", LitNumber(1)), In(NumberList(MaxInLen))}

CrossFilterLists ==
    {<<>>} \cup {<<CrossFilter("Issue", "Run", <<FieldFilter("result", c)>>)>> :
                    c \in CrossConditions}

TableMappings ==
    {EmptyMapping,
     [e \in Entities |-> IF e = "Issue" THEN "issues" ELSE "test_runs"],
     [e \in {"Issue"} |-> "bugs"]}

OptimizationConfigs ==
    [max_or_conditions_for_in : 0..MaxOrThreshold, max_in_values : 0..MaxInThreshold]

\* the compiler is configured before it is used
NotUsed == result = NoResult /\ batch_result = NoResult

\* set_table_mapping that keeps the entries the new mapping does not have
set_table_mapping_merge(m) ==
    /\ NotUsed
    /\ mappings' = [e \in DOMAIN m \cup DOMAIN mappings |->
                        IF e \in DOMAIN m THEN m[e] ELSE mappings[e]]
    /\ UNCHANGED <<serviceVars, query, entity, optimizer_config, batch_config, result,
                   batch_result, in_len, lexVars>>

set_table_mapping(m) ==
    /\ NotUsed
    /\ mappings' = m
    /\ UNCHANGED <<serviceVars, query, entity, optimizer_config, batch_config, result,
                   batch_result, in_len, lexVars>>

set_optimization_config(c) ==
    /\ NotUsed
    /\ optimizer_config' = c
    /\ UNCHANGED <<serviceVars, query, entity, batch_config, mappings, result, batch_result,
                   in_len, lexVars>>

SetTableMapping == \E m \in TableMappings : set_table_mapping(m)

SetOptimizationConfig == \E c \in OptimizationConfigs : set_optimization_config(c)

CompileBatchQuery ==
    /\ batch_result = NoResult
    /\ batch_result' = compile_batch_query(Self, query, entity)
    /\ UNCHANGED <<serviceVars, query, entity, compilerVars, result, in_len, lexVars>>

InitBatch ==
    /\ in_len = MaxInLen
    /\ \E bs \in BaseFilterLists, cs \in CrossFilterLists : query = Query(bs, cs)
    /\ entity = "Issue"
    /\ optimizer_config = SqlCompilerNew.optimizer_config
    /\ batch_config \in [max_batch_size : 0..MaxBatchSize,
                         enable_batch_processing : BOOLEAN]
    /\ mappings = EmptyMapping
    /\ result = NoResult
    /\ batch_result = NoResult
    /\ input = <<>>
    /\ position = 0
    /\ tokens = <<>>
    /\ parse_result = NoResult
    /\ Idle

NextBatch == SetTableMapping \/ SetOptimizationConfig \/ Compile \/ CompileBatchQuery

SpecBatch == InitBatch /\ [][NextBatch]_vars

(***************************************************************************)
(* Claims about the batch planner, checked under SpecBatch.                *)
(***************************************************************************)
LargeConditions == find_large_in_conditions(query, batch_config.max_batch_size)

\* the batch call returned in the batched case
Batched ==
    /\ batch_result.st = "ok"
    /\ batch_config.enable_batch_processing
    /\ Len(LargeConditions) > 0

\* the condition with its first In node of more than m values, in
\* traversal order, holding the values of chunk instead
RECURSIVE WithChunk(_, _, _)
WithChunk(c, m, chunk) ==
    IF c.tag = "In" /\ Len(c.values) > m THEN In(chunk)
    ELSE IF c.tag \in {"And", "Or"} THEN
        IF extract_large_in_from_condition("f", c.left, m).some
        THEN [c EXCEPT !.left = WithChunk(c.left, m, chunk)]
        ELSE [c EXCEPT !.right = WithChunk(c.right, m, chunk)]
    ELSE IF c.tag \in {"Not", "Grouped"} THEN
        [c EXCEPT !.inner = WithChunk(c.inner, m, chunk)]
    ELSE c

HasLarge(f, m) == extract_large_in_from_condition(f.field, f.condition, m).some

\* the filters with the first oversized In node replaced by chunk
FiltersWithChunk(filters, m, chunk) ==
    [i \in 1..Len(filters) |->
        IF HasLarge(filters[i], m) /\ \A j \in 1..(i - 1) : ~HasLarge(filters[j], m)
        THEN [filters[i] EXCEPT !.condition = WithChunk(filters[i].condition, m, chunk)]
        ELSE filters[i]]

\* the query that differs from q in its first oversized In node only
\* (base filters first, then cross filters, left to right)
QueryWithChunk(q, m, chunk) ==
    IF \E i \in 1..Len(q.base_filters) : HasLarge(q.base_filters[i], m)
    THEN [q EXCEPT !.base_filters = FiltersWithChunk(q.base_filters, m, chunk)]
    ELSE [q EXCEPT !.cross_filters =
            [i \in 1..Len(q.cross_filters) |->
                IF /\ \E k \in 1..Len(q.cross_filters[i].filters) :
                          HasLarge(q.cross_filters[i].filters[k], m)
                   /\ \A j \in 1..(i - 1) :
                          \A k \in 1..Len(q.cross_filters[j].filters) :
                              ~HasLarge(q.cross_filters[j].filters[k], m)
                THEN [q.cross_filters[i] EXCEPT
                         !.filters = FiltersWithChunk(q.cross_filters[i].filters, m, chunk)]
                ELSE q.cross_filters[i]]]

\* C6: in the batched case there are ceil(n/m) statements, and the i-th is
\* the compilation of the query whose first oversized In node holds the
\* i-th chunk of its values.
C6_StatementPerChunk ==
    Batched =>
        LET m == batch_config.max_batch_size
            cs == chunks(LargeConditions[1].values, m)
        IN /\ Len(batch_result.queries) = Len(cs)
           /\ \A i \in 1..Len(cs) :
                 batch_result.queries[i]
                     = compile(Self, QueryWithChunk(query, m, cs[i]), entity).sql

\* C7: when several filters hold an oversized In node only the first one
\* in scan order is batched: ceil(n_first / max_batch_size) statements.
C7_OnlyFirstBatched ==
    (Batched /\ Len(LargeConditions) >= 2) =>
        Len(batch_result.queries)
            = Ceil(Len(LargeConditions[1].values), batch_config.max_batch_size)

\* C8: with batching disabled, or with no oversized In node, the batch path
\* returns the one statement and the log of the plain compile path of the
\* same compiler, and no estimated row count.
C8_UnbatchedEqualsPlain ==
    (/\ batch_result.st = "ok" /\ result.st = "ok"
     /\ (~batch_config.enable_batch_processing \/ Len(LargeConditions) = 0)) =>
        /\ batch_result.queries = <<result.sql>>
        /\ batch_result.optimizations = result.optimizations
        /\ batch_result.total_estimated_rows = None

\* the chunks compile_batch works through, in order
RECURSIVE ChunkPlan(_, _)
ChunkPlan(large, m) ==
    IF Len(large) = 0 THEN <<>>
    ELSE ChunkPlan(SubSeq(large, 1, Len(large) - 1), m)
             \o MapSeq(chunks(large[Len(large)].values, m),
                       LAMBDA b : [field |-> large[Len(large)].field, batch |-> b])

\* the compilation made for one chunk
ChunkCompile(p) ==
    compile(SqlCompilerNew, replace_in_condition_with_batch(query, p.field, p.batch),
            entity)

RECURSIVE ConcatLogs(_)
ConcatLogs(rs) ==
    IF Len(rs) = 0 THEN <<>>
    ELSE ConcatLogs(SubSeq(rs, 1, Len(rs) - 1)) \o rs[Len(rs)].optimizations

\* C9: in the batched case the merged log is the per-chunk logs in chunk
\* order followed by one InToUnion{"batch_processing", s, s} entry, s the
\* number of statements, and total_estimated_rows is s x max_batch_size.
C9_MergedLog ==
    Batched =>
        LET s == Len(batch_result.queries)
            rs == MapSeq(ChunkPlan(LargeConditions, batch_config.max_batch_size),
                         ChunkCompile)
        IN /\ Len(rs) = s
           /\ \A i \in 1..s : batch_result.queries[i] = rs[i].sql
           /\ batch_result.optimizations
                  = Append(ConcatLogs(rs), InToUnion(Unqualified("batch_processing"), s, s))
           /\ batch_result.total_estimated_rows
                  = Some(s * batch_config.max_batch_size)

C9_Witness ==
    /\ Batched
    /\ Len(batch_result.queries) >= 2
    /\ Len(batch_result.optimizations) >= 3
    /\ batch_result.optimizations[1].kind = "OrToIn"

(***************************************************************************)
(* The lexer (src/src/lexer.rs).  A text is a sequence of one-character    *)
(* strings, positions are byte offsets from 0; the alphabet is ASCII, so   *)
(* every character is one byte long.                                       *)
(***************************************************************************)
UpperCase == <<"A", "B", "C", "D", "E", "F", "G", "H", "I", "J", "K", "L", "M", "N", "O", "P", "Q", "R", "S", "T", "U", "V", "W", "X", "Y", "Z">>
LowerCase == <<"a", "b", "c", "d", "e", "f", "g", "h", "i", "j", "k", "l", "m", "n", "o", "p", "q", "r", "s", "t", "u", "v", "w", "x", "y", "z">>
Digits == <<"0", "1", "2", "3", "4", "5", "6", "7", "8", "9">>

Range(s) == {s[i] : i \in 1..Len(s)}

is_alphabetic(c) == c \in Range(UpperCase) \cup Range(LowerCase)
is_ascii_digit(c) == c \in Range(Digits)
is_alphanumeric(c) == is_alphabetic(c) \/ is_ascii_digit(c)
is_whitespace(c) == c \in {" "}

to_ascii_lowercase_char(c) ==
    IF c \in Range(UpperCase)
    THEN LowerCase[CHOOSE i \in 1..Len(UpperCase) : UpperCase[i] = c]
    ELSE c

to_ascii_lowercase(s) == MapSeq(s, to_ascii_lowercase_char)

eq_ignore_ascii_case(a, b) == to_ascii_lowercase(a) = to_ascii_lowercase(b)

\* &input[a..b]
Slice(inp, a, b) == SubSeq(inp, a + 1, b)

Span(start, end) == [start |-> start, end |-> end]

Token(kind, text, value, span) ==
    [kind |-> kind, text |-> text, value |-> value, span |-> span]

\* a token that carries no text and no number
Punct(kind, start, end) == Token(kind, <<>>, 0, Span(start, end))

peek(inp, pos) == IF pos < Len(inp) THEN Some(inp[pos + 1]) ELSE None

peek_next(inp, pos) == IF pos + 1 < Len(inp) THEN Some(inp[pos + 2]) ELSE None

\* the position after bump()
bump(inp, pos) == IF pos < Len(inp) THEN pos + 1 ELSE pos

\* the loops `while let Some(c) = self.peek() { if <c in set> { bump } else
\* { break } }`: the position they stop at
RECURSIVE bump_while(_, _, _)
bump_while(inp, pos, set) ==
    IF pos < Len(inp) /\ inp[pos + 1] \in set
    THEN bump_while(inp, pos + 1, set)
    ELSE pos

skip_whitespace(inp, pos) == bump_while(inp, pos, {c \in Range(inp) : is_whitespace(c)})

\* the value of a digit and of a run of digits
digit_value(c) == (CHOOSE i \in 1..Len(Digits) : Digits[i] = c) - 1

RECURSIVE decimal(_)
decimal(ds) ==
    IF Len(ds) = 0 THEN 0
    ELSE 10 * decimal(SubSeq(ds, 1, Len(ds) - 1)) + digit_value(ds[Len(ds)])

RECURSIVE strip_zeros(_)
strip_zeros(ds) ==
    IF Len(ds) > 1 /\ ds[1] = "0" THEN strip_zeros(Tail(ds)) ELSE ds

\* a < b for two digit runs of the same length
RECURSIVE digits_less(_, _)
digits_less(a, b) ==
    IF Len(a) = 0 THEN FALSE
    ELSE IF a[1] # b[1] THEN digit_value(a[1]) < digit_value(b[1])
    ELSE digits_less(Tail(a), Tail(b))

I64MaxDigits == <<"9", "2", "2", "3", "3", "7", "2", "0", "3", "6", "8", "5", "4", "7", "7", "5", "8", "0", "7">>

fits_i64(ds) ==
    \/ Len(ds) < Len(I64MaxDigits)
    \/ Len(ds) = Len(I64MaxDigits) /\ ~digits_less(I64MaxDigits, ds)

\* value_str.parse::<i64>().unwrap_or(0)
parse_i64_or_zero(ds) ==
    IF fits_i64(strip_zeros(ds)) THEN decimal(strip_zeros(ds)) ELSE 0

number_token(inp, start, end) ==
    Token("Number", <<>>, parse_i64_or_zero(Slice(inp, start, end)), Span(start, end))

read_number(inp, start, pos) ==
    number_token(inp, start, bump_while(inp, pos, {c \in Range(inp) : is_ascii_digit(c)}))

\* string_token with a span that starts at the content, after the quote
string_token_from_content(inp, start, content_start, content_end) ==
    Token("String", Slice(inp, content_start, content_end), 0,
          Span(content_start, bump(inp, content_end)))

string_token(inp, start, content_start, content_end) ==
    Token("String", Slice(inp, content_start, content_end), 0,
          Span(start, bump(inp, content_end)))

read_string(inp, start, pos) ==
    string_token(inp, start, pos, bump_while(inp, pos, {c \in Range(inp) : c # "\""}))

match_keyword(s) ==
    CASE to_ascii_lowercase(s) = <<"a", "n", "d">> -> "And"
      [] to_ascii_lowercase(s) = <<"o", "r">> -> "Or"
      [] to_ascii_lowercase(s) = <<"n", "o", "t">> -> "Not"
      [] to_ascii_lowercase(s) = <<"i", "n">> -> "In"
      [] to_ascii_lowercase(s) = <<"i", "s">> -> "Is"
      [] to_ascii_lowercase(s) = <<"n", "u", "l", "l">> -> "Null"
      [] to_ascii_lowercase(s) = <<"t", "o", "d", "a", "y">> -> "Today"
      [] to_ascii_lowercase(s) = <<"y", "e", "s", "t", "e", "r", "d", "a", "y">> -> "Yesterday"
      [] to_ascii_lowercase(s) = <<"t", "o", "m", "o", "r", "r", "o", "w">> -> "Tomorrow"
      [] to_ascii_lowercase(s) = <<"c", "u", "r", "r", "e", "n", "t", "_", "u", "s", "e", "r">> -> "CurrentUser"
      [] OTHER -> "Identifier"

word_token(literal, start, end) ==
    Token(match_keyword(literal),
          IF match_keyword(literal) = "Identifier" THEN literal ELSE <<>>,
          0, Span(start, end))

\* identifier_token that does not look for the colon
identifier_token_without_colon(inp, start, end) ==
    IF eq_ignore_ascii_case(Slice(inp, start, end), <<"F", "i", "l", "t", "e", "r">>)
    THEN Punct("Filter", start, end)
    ELSE IF eq_ignore_ascii_case(Slice(inp, start, end), <<"C", "r", "o", "s", "s", "F", "i", "l", "t", "e", "r">>)
    THEN Punct("CrossFilter", start, end)
    ELSE word_token(Slice(inp, start, end), start, end)

identifier_token(inp, start, end) ==
    IF peek(inp, end) = Some(":") /\ eq_ignore_ascii_case(Slice(inp, start, end), <<"F", "i", "l", "t", "e", "r">>)
    THEN Punct("Filter", start, end + 1)
    ELSE IF peek(inp, end) = Some(":")
            /\ eq_ignore_ascii_case(Slice(inp, start, end), <<"C", "r", "o", "s", "s", "F", "i", "l", "t", "e", "r">>)
    THEN Punct("CrossFilter", start, end + 1)
    ELSE word_token(Slice(inp, start, end), start, end)

read_identifier(inp, start, pos) ==
    identifier_token(inp, start,
        bump_while(inp, pos, {c \in Range(inp) : is_alphanumeric(c) \/ c = "-" \/ c = "_"}))

\* the two-character operators: `if self.peek() == Some('=')`
\* with_eq that takes the two-character token whatever follows
with_eq_unchecked(inp, start, both, single) == Punct(both, start, start + 2)

with_eq(inp, start, both, single) ==
    IF peek(inp, start + 1) = Some("=")
    THEN Punct(both, start, start + 2)
    ELSE Punct(single, start, start + 1)

\* the match of next() on the character c read at start
token_at(inp, start, c) ==
    CASE c = "=" -> Punct("Eq", start, start + 1)
      [] c = "(" -> Punct("LParen", start, start + 1)
      [] c = ")" -> Punct("RParen", start, start + 1)
      [] c = "[" -> Punct("LBracket", start, start + 1)
      [] c = "]" -> Punct("RBracket", start, start + 1)
      [] c = "<" -> with_eq(inp, start, "Lte", "Lt")
      [] c = ">" -> with_eq(inp, start, "Gte", "Gt")
      [] c = "!" -> with_eq(inp, start, "NotEq", "Illegal")
      [] c = ";" -> Punct("Semicolon", start, start + 1)
      [] c = "-" -> Punct("Dash", start, start + 1)
      [] c = "\"" -> read_string(inp, start, start + 1)
      [] is_ascii_digit(c) -> read_number(inp, start, start + 1)
      [] is_alphabetic(c) -> read_identifier(inp, start, start + 1)
      [] OTHER -> Punct("Illegal", start, start + 1)

next_from(inp, start) ==
    IF start < Len(inp) THEN Some(token_at(inp, start, inp[start + 1])) ELSE None

\* Iterator::next: the token, which ends at the new position, or None
next(inp, pos) == next_from(inp, skip_whitespace(inp, pos))

(***************************************************************************)
(* The parser (src/src/parser.rs).  A parse function takes the tokens and  *)
(* Parser.position and returns Ok with its value and the new position, or  *)
(* Err with the ParseError.                                                *)
(***************************************************************************)
ParseOk(value, pos) == [st |-> "ok", value |-> value, pos |-> pos]

\* ParseError::at_position and ParseError::new
at_position(message, span) == [st |-> "err", message |-> message, span |-> Some(span)]
ParseErrorNew(message) == [st |-> "err", message |-> message, span |-> None]

\* the `?` operator
Try(r, K(_)) == IF r.st = "ok" THEN K(r) ELSE r

parser_peek(ts, pos) == IF pos < Len(ts) THEN Some(ts[pos + 1]) ELSE None

advance(ts, pos) == IF pos < Len(ts) THEN pos + 1 ELSE pos

\* expect reporting a mismatch without the span of the token it found
expect_without_span(ts, pos, expected) ==
    IF pos < Len(ts) /\ ts[pos + 1].kind = expected
    THEN ParseOk(ts[pos + 1], pos + 1)
    ELSE ParseErrorNew("Expected token, but reached end of input")

expect(ts, pos, expected) ==
    IF pos < Len(ts) THEN
        IF ts[pos + 1].kind = expected
        THEN ParseOk(ts[pos + 1], pos + 1)
        ELSE at_position("Expected token", ts[pos + 1].span)
    ELSE ParseErrorNew("Expected token, but reached end of input")

match_token(ts, pos, kind) == pos < Len(ts) /\ ts[pos + 1].kind = kind

is_comparison_operator(ts, pos) ==
    pos < Len(ts) /\ ts[pos + 1].kind \in {"Eq", "NotEq", "Gt", "Lt", "Gte", "Lte"}

\* literal_of that takes any token it does not know as unquoted text
literal_of_lenient(token, pos) ==
    IF token.kind = "Number" THEN ParseOk(LitNumber(token.value), pos)
    ELSE ParseOk(LitString(token.text), pos)

literal_of(token, pos) ==
    CASE token.kind = "String" -> ParseOk(LitString(token.text), pos)
      [] token.kind = "Number" -> ParseOk(LitNumber(token.value), pos)
      [] token.kind = "Today" -> ParseOk(LitDate("today"), pos)
      [] token.kind = "Yesterday" -> ParseOk(LitDate("yesterday"), pos)
      [] token.kind = "Tomorrow" -> ParseOk(LitDate("tomorrow"), pos)
      [] token.kind = "CurrentUser" -> ParseOk(LitCurrentUser, pos)
      [] token.kind = "Identifier" -> ParseOk(LitString(token.text), pos)
      [] OTHER -> at_position("Expected literal value", token.span)

parse_literal(ts, pos) ==
    IF pos < Len(ts) THEN literal_of(ts[pos + 1], pos + 1)
    ELSE ParseErrorNew("Expected literal value")

parse_comparison_operator(ts, pos) ==
    IF pos < Len(ts) THEN
        IF ts[pos + 1].kind \in {"Eq", "NotEq", "Gt", "Lt", "Gte", "Lte"}
        THEN ParseOk(ts[pos + 1].kind, pos + 1)
        ELSE at_position("Expected comparison operator", ts[pos + 1].span)
    ELSE ParseErrorNew("Expected comparison operator")

\* the loop of the In branch of parse_primary_expression; TokenKind has no
\* Comma and the lexer produces none
RECURSIVE in_values(_, _, _)
in_values(ts, pos, values) ==
    Try(parse_literal(ts, pos), LAMBDA v :
        IF match_token(ts, v.pos, "RParen")
        THEN ParseOk(Append(values, v.value), v.pos)
        ELSE Try(expect(ts, v.pos, "Comma"), LAMBDA c :
                 in_values(ts, c.pos, Append(values, v.value))))

in_list(ts, pos) ==
    IF match_token(ts, pos, "RParen") THEN ParseOk(<<>>, pos)
    ELSE in_values(ts, pos, <<>>)

RECURSIVE parse_or_expression(_, _)
RECURSIVE or_loop(_, _)
RECURSIVE parse_and_expression(_, _)
RECURSIVE and_loop(_, _)
RECURSIVE parse_not_expression(_, _)
RECURSIVE parse_primary_expression(_, _)

\* or_loop taking a NOT expression, not an AND expression, as the right
\* operand of OR
RECURSIVE or_loop_tight(_, _)
or_loop_tight(ts, left) ==
    IF match_token(ts, left.pos, "Or") THEN
        Try(parse_not_expression(ts, left.pos + 1), LAMBDA right :
            or_loop_tight(ts, ParseOk(Or(left.value, right.value), right.pos)))
    ELSE left

parse_condition(ts, pos) == parse_or_expression(ts, pos)

parse_or_expression(ts, pos) ==
    Try(parse_and_expression(ts, pos), LAMBDA left : or_loop(ts, left))

or_loop(ts, left) ==
    IF match_token(ts, left.pos, "Or") THEN
        Try(parse_and_expression(ts, left.pos + 1), LAMBDA right :
            or_loop(ts, ParseOk(Or(left.value, right.value), right.pos)))
    ELSE left

parse_and_expression(ts, pos) ==
    Try(parse_not_expression(ts, pos), LAMBDA left : and_loop(ts, left))

and_loop(ts, left) ==
    IF match_token(ts, left.pos, "And") THEN
        Try(parse_not_expression(ts, left.pos + 1), LAMBDA right :
            and_loop(ts, ParseOk(And(left.value, right.value), right.pos)))
    ELSE left

parse_not_expression(ts, pos) ==
    IF match_token(ts, pos, "Not") THEN
        Try(parse_not_expression(ts, pos + 1), LAMBDA expr :
            ParseOk(Not(expr.value), expr.pos))
    ELSE parse_primary_expression(ts, pos)

parse_primary_expression(ts, pos) ==
    IF pos >= Len(ts) THEN ParseErrorNew("Unexpected end of input")
    ELSE IF ts[pos + 1].kind = "LParen" THEN
        Try(parse_or_expression(ts, pos + 1), LAMBDA expr :
            Try(expect(ts, expr.pos, "RParen"), LAMBDA p :
                ParseOk(Grouped(expr.value), p.pos)))
    ELSE IF ts[pos + 1].kind = "Is" THEN
        IF match_token(ts, pos + 1, "Not")
        THEN Try(expect(ts, pos + 2, "Null"), LAMBDA n : ParseOk(IsNotNull, n.pos))
        ELSE Try(expect(ts, pos + 1, "Null"), LAMBDA n : ParseOk(IsNull, n.pos))
    ELSE IF ts[pos + 1].kind = "In" THEN
        Try(expect(ts, pos + 1, "LParen"), LAMBDA l :
            Try(in_list(ts, l.pos), LAMBDA values :
                Try(expect(ts, values.pos, "RParen"), LAMBDA p :
                    ParseOk(In(values.value), p.pos))))
    ELSE IF is_comparison_operator(ts, pos) THEN
        Try(parse_comparison_operator(ts, pos), LAMBDA op :
            Try(parse_literal(ts, op.pos), LAMBDA value :
                ParseOk(Comparison(op.value, value.value), value.pos)))
    ELSE Try(parse_literal(ts, pos), LAMBDA value :
             ParseOk(Comparison("Eq", value.value), value.pos))

parse_field_filter(ts, pos) ==
    Try(expect(ts, pos, "Identifier"), LAMBDA field_token :
        Try(expect(ts, field_token.pos, "LBracket"), LAMBDA l :
            Try(parse_condition(ts, l.pos), LAMBDA condition :
                Try(expect(ts, condition.pos, "RBracket"), LAMBDA r :
                    ParseOk(FieldFilter(field_token.value.text, condition.value),
                            r.pos)))))

RECURSIVE field_filters_loop(_, _, _)
\* after_field_filter that wants a field filter after every semicolon
after_field_filter_strict(ts, pos, filters) ==
    IF pos >= Len(ts) THEN ParseOk(filters, pos)
    ELSE IF ts[pos + 1].kind = "Semicolon" THEN field_filters_loop(ts, pos + 1, filters)
    ELSE IF ts[pos + 1].kind = "CrossFilter" THEN ParseOk(filters, pos)
    ELSE at_position("Expected semicolon or CrossFilter", ts[pos + 1].span)

\* after_field_filter that lets a Filter token end the sequence as well
after_field_filter_or_filter(ts, pos, filters) ==
    IF pos >= Len(ts) THEN ParseOk(filters, pos)
    ELSE IF ts[pos + 1].kind = "Semicolon" THEN
        IF pos + 1 < Len(ts) /\ ts[pos + 2].kind \notin {"CrossFilter", "Filter"}
        THEN field_filters_loop(ts, pos + 1, filters)
        ELSE ParseOk(filters, pos + 1)
    ELSE IF ts[pos + 1].kind \in {"CrossFilter", "Filter"} THEN ParseOk(filters, pos)
    ELSE at_position("Expected semicolon or CrossFilter", ts[pos + 1].span)

\* what follows one field filter: a semicolon, CrossFilter, or the end
after_field_filter(ts, pos, filters) ==
    IF pos >= Len(ts) THEN ParseOk(filters, pos)
    ELSE IF ts[pos + 1].kind = "Semicolon" THEN
        IF pos + 1 < Len(ts) /\ ts[pos + 2].kind # "CrossFilter"
        THEN field_filters_loop(ts, pos + 1, filters)
        ELSE ParseOk(filters, pos + 1)
    ELSE IF ts[pos + 1].kind = "CrossFilter" THEN ParseOk(filters, pos)
    ELSE at_position("Expected semicolon or CrossFilter", ts[pos + 1].span)

field_filters_loop(ts, pos, filters) ==
    Try(parse_field_filter(ts, pos), LAMBDA filter :
        after_field_filter(ts, filter.pos, Append(filters, filter.value)))

parse_field_filters_until_semicolon_or_crossfilter(ts, pos) ==
    field_filters_loop(ts, pos, <<>>)

\* str::split(sep).collect(): the parts between the separators, empty ones
\* included
RECURSIVE split_from(_, _, _, _)
split_from(s, sep, i, part) ==
    IF i > Len(s) THEN <<part>>
    ELSE IF s[i] = sep THEN <<part>> \o split_from(s, sep, i + 1, <<>>)
    ELSE split_from(s, sep, i + 1, Append(part, s[i]))

split(s, sep) == split_from(s, sep, 1, <<>>)

\* parse_cross_filter once the entity name is split
cross_filter_of_parts(ts, entity_token, parts) ==
    IF Len(parts) # 2
    THEN at_position("Entity identifier must be in format 'Source-Target'",
                     entity_token.value.span)
    ELSE Try(expect(ts, entity_token.pos, "Gt"), LAMBDA g :
             Try(parse_field_filters_until_semicolon_or_crossfilter(ts, g.pos),
                 LAMBDA filters :
                     ParseOk(CrossFilter(parts[1], parts[2], filters.value),
                             filters.pos)))

parse_cross_filter(ts, pos) ==
    Try(expect(ts, pos, "Lt"), LAMBDA l :
        Try(expect(ts, l.pos, "Identifier"), LAMBDA entity_token :
            cross_filter_of_parts(ts, entity_token,
                                  split(entity_token.value.text, "-"))))

RECURSIVE parse_loop(_, _, _, _)
\* the loop of parse left after its first clause
parse_loop_once(ts, pos, base_filters, cross_filters) ==
    IF pos >= Len(ts) THEN ParseOk(Query(base_filters, cross_filters), pos)
    ELSE IF ts[pos + 1].kind = "Filter" THEN
        Try(parse_field_filters_until_semicolon_or_crossfilter(ts, pos + 1),
            LAMBDA filters :
                ParseOk(Query(base_filters \o filters.value, cross_filters), filters.pos))
    ELSE IF ts[pos + 1].kind = "CrossFilter" THEN
        Try(parse_cross_filter(ts, pos + 1), LAMBDA cross_filter :
            ParseOk(Query(base_filters, Append(cross_filters, cross_filter.value)),
                    cross_filter.pos))
    ELSE at_position("Unexpected token", ts[pos + 1].span)

parse_loop(ts, pos, base_filters, cross_filters) ==
    IF pos >= Len(ts) THEN ParseOk(Query(base_filters, cross_filters), pos)
    ELSE IF ts[pos + 1].kind = "Filter" THEN
        Try(parse_field_filters_until_semicolon_or_crossfilter(ts, pos + 1),
            LAMBDA filters :
                parse_loop(ts, filters.pos, base_filters \o filters.value,
                           cross_filters))
    ELSE IF ts[pos + 1].kind = "CrossFilter" THEN
        Try(parse_cross_filter(ts, pos + 1), LAMBDA cross_filter :
            parse_loop(ts, cross_filter.pos, base_filters,
                       Append(cross_filters, cross_filter.value)))
    ELSE at_position("Unexpected token", ts[pos + 1].span)

parse(ts) == parse_loop(ts, 0, <<>>, <<>>)

(***************************************************************************)
(* The texts handed to the lexer, and the specification of lexing and      *)
(* parsing one of them.                                                    *)
(***************************************************************************)
MaxEntityLen == 3

EntityChars == {"T", "R", "-"}

EntityTexts == UNION {[1..n -> EntityChars] : n \in 0..MaxEntityLen}

Prefixes == {<<>>, <<"F", "i", "l", "t", "e", "r", ":", " ", "s", "[", "1", "]", ";">>}

CrossFilterTexts ==
    {p \o <<"C", "r", "o", "s", "s", "F", "i", "l", "t", "e", "r", ":", " ", "<">> \o e \o <<">", " ", "s", "[", "\"", "P", "\"", "]">> : p \in Prefixes, e \in EntityTexts}

OtherTexts ==
    {<<"F", "i", "l", "t", "e", "r", ":", " ", "s", "[", "\"", "a", "\"", " ", "O", "R", " ", "b", " ", "O", "R", " ", ">", "=", " ", "1", "2", " ", "A", "N", "D", " ", "N", "O", "T", " ", "(", "i", "s", " ", "n", "u", "l", "l", ")", "]", ";", " ", "p", "[", "I", "S", " ", "N", "O", "T", " ", "N", "U", "L", "L", "]">>,
     <<"f", "i", "l", "t", "e", "r", ":", " ", "s", "[", "I", "N", " ", "(", "1", ")", "]", ";", "c", "r", "o", "s", "s", "f", "i", "l", "t", "e", "r", ":", " ", "<", "T", "-", "R", ">", " ", "d", "[", ">", "t", "o", "d", "a", "y", "]", ";", " ", "u", "[", "!", "=", "c", "u", "r", "r", "e", "n", "t", "_", "u", "s", "e", "r", "]">>,
     <<"F", "i", "l", "t", "e", "r", ":", " ", "s", "[", "I", "N", " ", "(", "1", " ", "2", ")", "]">>,
     <<"F", "i", "l", "t", "e", "r", ":", " ", "s", "[", "I", "N", " ", "(", ")", "]", " ", "t", "[", "<", "=", "y", "e", "s", "t", "e", "r", "d", "a", "y", " ", "O", "R", " ", "<", "1", " ", "O", "R", " ", "=", "t", "o", "m", "o", "r", "r", "o", "w", "]">>,
     <<"F", "i", "l", "t", "e", "r", ":", " ", "s", "[", "!", "1", "]">>,
     <<"F", "i", "l", "t", "e", "r", ":", " ", "s", "[", "\"", "a">>,
     <<"s", "[", "1", "]">>,
     <<"F", "i", "l", "t", "e", "r", ":", " ", "s", "[", "0", "0", "7", " ", "A", "N", "D", " ", "1", "_", "a", "]">>}

\* f[IN (1, 2, .., k)], with a comma before the closing parenthesis or not
MaxInListLen == 3

RECURSIVE InListText(_)
InListText(k) ==
    IF k = 0 THEN <<>>
    ELSE IF k = 1 THEN <<Digits[2]>>
    ELSE InListText(k - 1) \o <<",", " ", Digits[k + 1]>>

InText(k, trailing) ==
    <<"F", "i", "l", "t", "e", "r", ":", " ", "s", "[", "I", "N", " ", "(">> \o InListText(k) \o (IF trailing THEN <<",">> ELSE <<>>) \o <<")", "]">>

InTexts == {InText(k, t) : k \in 0..MaxInListLen, t \in BOOLEAN}

\* conditions without parentheses: primaries 1, 2, .. joined by OR and AND,
\* each with NOT in front of it or not
MaxPrimaries == 3

PrecDescriptors ==
    UNION {[ops : [1..(n - 1) -> {"Or", "And"}], nots : [1..n -> BOOLEAN]] :
               n \in 1..MaxPrimaries}

PrimaryText(d, i) == (IF d.nots[i] THEN <<"N", "O", "T", " ">> ELSE <<>>) \o <<Digits[i + 1]>>

RECURSIVE ConditionText(_, _)
ConditionText(d, n) ==
    IF n = 1 THEN PrimaryText(d, 1)
    ELSE ConditionText(d, n - 1)
             \o (IF d.ops[n - 1] = "Or" THEN <<" ", "O", "R", " ">> ELSE <<" ", "A", "N", "D", " ">>)
             \o PrimaryText(d, n)

PrecText(d) == <<"F", "i", "l", "t", "e", "r", ":", " ", "s", "[">> \o ConditionText(d, Len(d.nots)) \o <<"]">>

PrecTexts == {PrecText(d) : d \in PrecDescriptors}

GroupedText == <<"F", "i", "l", "t", "e", "r", ":", " ", "s", "[", "(", "1", " ", "O", "R", " ", "2", ")", " ", "A", "N", "D", " ", "N", "O", "T", " ", "(", "3", ")", "]">>

\* k NOTs in front of one primary
MaxNots == 3

RECURSIVE NotsText(_)
NotsText(k) == IF k = 0 THEN <<>> ELSE <<"N", "O", "T", " ">> \o NotsText(k - 1)

NotText(k) == <<"F", "i", "l", "t", "e", "r", ":", " ", "s", "t", "a", "t", "u", "s", "[">> \o NotsText(k) \o <<"\"", "O", "p", "e", "n", "\"", "]">>

NotTexts == {NotText(k) : k \in 1..MaxNots}

\* a minus sign in front of a number
NegativeTexts == {<<"F", "i", "l", "t", "e", "r", ":", " ", "p", "r", "i", "o", "r", "i", "t", "y", "[", "-", "4", "]">>, <<"F", "i", "l", "t", "e", "r", ":", " ", "p", "r", "i", "o", "r", "i", "t", "y", "[", ">", "-", "5", "]">>}

\* texts with blanks around the tokens and characters that start no token
BlankTexts ==
    {<<" ", "F", "i", "l", "t", "e", "r", ":", " ", " ", "s", " ", "[", " ", "\"", "a", " ", "b", "\"", " ", "]", " ", " ">>,
     <<"F", "i", "l", "t", "e", "r", ":", " ", "s", "[", "!", " ", "1", "]">>,
     <<"F", "i", "l", "t", "e", "r", ":", " ", "s", "[", "1", " ", "@", " ", "#", "2", "]">>,
     <<"F", "i", "l", "t", "e", "r", " ", ":", " ", "s", "[", "<", "=", " ", "1", "]", ";", " ", " ">>,
     <<" ", " ">>,
     <<>>}

\* the keywords Filter and CrossFilter with and without their colon, and
\* colons elsewhere
ColonTexts ==
    {<<"C", "r", "o", "s", "s", "F", "i", "l", "t", "e", "r", " ", ":", " ", "<", "T", "-", "R", ">", " ", "s", "[", "1", "]">>,
     <<"F", "I", "L", "T", "E", "R", ":", " ", "s", "t", "a", "t", "u", "s", ":", " ", "[", "1", "]">>,
     <<"F", "i", "l", "t", "e", "r", ":", "s", "[", "1", "]", ";", "C", "R", "O", "S", "S", "F", "I", "L", "T", "E", "R", ":", "<", "T", "-", "R", ">", "s", "[", "1", "]">>,
     <<"F", "i", "l", "t", "e", "r", "s", ":", " ", "s", "[", "1", "]">>,
     <<"F", "i", "l", "t", "e", "r", ":", " ", "s", "[", "c", "r", "o", "s", "s", "f", "i", "l", "t", "e", "r", " ", ":", "]">>}

\* runs of digits: beyond the range of i64, with leading zeros, in a word
DigitTexts ==
    {<<"F", "i", "l", "t", "e", "r", ":", " ", "i", "d", "[", "9", "9", "9", "9", "9", "9", "9", "9", "9", "9", "9", "9", "9", "9", "9", "9", "9", "9", "9", "9", "]">>,
     <<"F", "i", "l", "t", "e", "r", ":", " ", "i", "d", "[", "0", "0", "7", "]">>,
     <<"F", "i", "l", "t", "e", "r", ":", " ", "i", "d", "[", "0", " ", "1", "2", "a", "]">>}

Inputs ==
    CrossFilterTexts \cup OtherTexts \cup InTexts \cup PrecTexts \cup {GroupedText}
        \cup NotTexts \cup NegativeTexts \cup BlankTexts \cup ColonTexts \cup DigitTexts

\* one call of Iterator::next by collect()
LexerNext ==
    /\ parse_result = NoResult
    /\ next(input, position).some
    /\ tokens' = Append(tokens, next(input, position).v)
    /\ position' = next(input, position).v.span.end
    /\ UNCHANGED <<serviceVars, query, entity, compilerVars, result, batch_result, in_len,
                   input, parse_result>>

\* the call of Iterator::next that returns None, which ends collect(), and
\* Parser::new(&tokens).parse()
Parse ==
    /\ parse_result = NoResult
    /\ ~next(input, position).some
    /\ position' = skip_whitespace(input, position)
    /\ parse_result' = parse(tokens)
    /\ UNCHANGED <<serviceVars, query, entity, compilerVars, result, batch_result, in_len,
                   input, tokens>>

InitParse ==
    /\ input \in Inputs
    /\ position = 0
    /\ tokens = <<>>
    /\ parse_result = NoResult
    /\ Idle
    /\ query = Query(<<>>, <<>>)
    /\ entity = "Issue"
    /\ optimizer_config = SqlCompilerNew.optimizer_config
    /\ batch_config = SqlCompilerNew.batch_config
    /\ mappings = SqlCompilerNew.mappings
    /\ result = NoResult
    /\ batch_result = NoResult
    /\ in_len = 0

NextParse == LexerNext \/ Parse

SpecParse == InitParse /\ [][NextParse]_vars

(***************************************************************************)
(* Claims about the parser, checked under SpecParse.                       *)
(***************************************************************************)
\* exactly one hyphen, with something before it and something after it
TwoNonEmptyParts(s) ==
    /\ Cardinality({i \in 1..Len(s) : s[i] = "-"}) = 1
    /\ s[1] # "-"
    /\ s[Len(s)] # "-"

\* the text starts with CrossFilter: < and an identifier
StartsCrossFilter ==
    /\ Len(tokens) >= 3
    /\ tokens[1].kind = "CrossFilter"
    /\ tokens[2].kind = "Lt"
    /\ tokens[3].kind = "Identifier"

\* C10: an entity identifier that does not split on '-' into exactly two
\* non-empty parts is a parse error with that token's span, and every
\* CrossFilter of a parsed Query has a non-empty source and target entity.
C10_EntityHasTwoNonEmptyParts ==
    /\ (parse_result.st = "ok") =>
           \A i \in 1..Len(parse_result.value.cross_filters) :
               /\ Len(parse_result.value.cross_filters[i].source_entity) > 0
               /\ Len(parse_result.value.cross_filters[i].target_entity) > 0
    /\ (parse_result # NoResult /\ StartsCrossFilter
            /\ ~TwoNonEmptyParts(tokens[3].text)) =>
           /\ parse_result.st = "err"
           /\ parse_result.span = Some(tokens[3].span)

\* the text is lexed and parsed
Parsed == parse_result # NoResult

\* the condition of the first base filter of the parsed query
ParsedCondition == parse_result.value.base_filters[1].condition

\* C11: f[IN (v1, .., vk)] with k >= 0 comma-separated literals parses to In
\* with these k literals in order, a comma before `)` is a parse error, and
\* the lexer produces a comma token for a comma.
C11_InListParses ==
    /\ \A k \in 0..MaxInListLen :
           (Parsed /\ input = InText(k, FALSE)) =>
               /\ parse_result.st = "ok"
               /\ parse_result.value
                      = Query(<<FieldFilter(<<"s">>, In(NumberList(k)))>>, <<>>)
    /\ \A k \in 1..MaxInListLen :
           (Parsed /\ input = InText(k, TRUE)) => parse_result.st = "err"
    /\ \A i \in 1..Len(tokens) :
           input[tokens[i].span.start + 1] = "," => tokens[i].kind = "Comma"

\* the i-th primary of a condition text, and the same with its NOT
Primary(i) == Comparison("Eq", LitNumber(i))

Factor(d, i) == IF d.nots[i] THEN Not(Primary(i)) ELSE Primary(i)

\* the factors i..j joined by AND, associated to the left
RECURSIVE AndRun(_, _, _)
AndRun(d, i, j) ==
    IF i = j THEN Factor(d, i) ELSE And(AndRun(d, i, j - 1), Factor(d, j))

\* the position of the last OR among the first n primaries, 0 if there is none
LastOr(d, n) ==
    IF \E j \in 1..(n - 1) : d.ops[j] = "Or"
    THEN CHOOSE j \in 1..(n - 1) :
             d.ops[j] = "Or" /\ \A k \in (j + 1)..(n - 1) : d.ops[k] = "And"
    ELSE 0

\* the tree of the first n primaries: NOT over AND over OR, left-associative
RECURSIVE PrecTree(_, _)
PrecTree(d, n) ==
    IF LastOr(d, n) = 0 THEN AndRun(d, 1, n)
    ELSE Or(PrecTree(d, LastOr(d, n)), AndRun(d, LastOr(d, n) + 1, n))

\* C12: without parentheses NOT binds tighter than AND and AND tighter than
\* OR, chains of AND and of OR associate to the left, and a parenthesised
\* sub-condition is kept as a Grouped node.
C12_Precedence ==
    /\ \A d \in PrecDescriptors :
           (Parsed /\ input = PrecText(d)) =>
               /\ parse_result.st = "ok"
               /\ parse_result.value
                      = Query(<<FieldFilter(<<"s">>, PrecTree(d, Len(d.nots)))>>, <<>>)
    /\ (Parsed /\ input = GroupedText) =>
           /\ parse_result.st = "ok"
           /\ ParsedCondition
                  = And(Grouped(Or(Primary(1), Primary(2))), Not(Grouped(Primary(3))))

\* a text of the shape a OR b AND c is parsed
C12_Witness ==
    /\ Parsed
    /\ parse_result.st = "ok"
    /\ \E d \in PrecDescriptors :
           /\ Len(d.nots) >= 3
           /\ d.ops[1] = "Or"
           /\ d.ops[2] = "And"
           /\ input = PrecText(d)

\* a token no rule of the grammar accepts, placed after the last token
JunkToken == Punct("Illegal", Len(input), Len(input) + 1)

\* the parse of the first k tokens did not stop at one of them
NoTokenRejected(k) ==
    parse(SubSeq(tokens, 1, k)).st = "err" => ~parse(SubSeq(tokens, 1, k)).span.some

\* C13: parsing is fail-fast.  An error carries no Query; its span is the
\* span of the first token the parser cannot accept (the parse of the tokens
\* up to it gives the same error, the parse of fewer tokens stops at none of
\* them), and it is None exactly when every token was accepted and the
\* input ended (a token added at the end would be the one reported).
C13_FailFast ==
    (Parsed /\ parse_result.st = "err") =>
        /\ DOMAIN parse_result = {"st", "message", "span"}
        /\ IF parse_result.span.some
           THEN \E i \in 1..Len(tokens) :
                    /\ tokens[i].span = parse_result.span.v
                    /\ parse(SubSeq(tokens, 1, i)) = parse_result
                    /\ \A k \in 0..(i - 1) : NoTokenRejected(k)
           ELSE /\ \A k \in 0..Len(tokens) : NoTokenRejected(k)
                /\ parse(Append(tokens, JunkToken)).st = "err"
                /\ parse(Append(tokens, JunkToken)).span = Some(JunkToken.span)

\* an expectation mismatch on a token in the middle of the text
C13_Witness ==
    /\ Parsed
    /\ parse_result.st = "err"
    /\ parse_result.message = "Expected token"
    /\ parse_result.span.some
    /\ parse_result.span.v.end < Len(input)

(***************************************************************************)
(* Claims about the lexer, checked under SpecParse.                        *)
(***************************************************************************)
\* byte b of the text lies in the span of a token
Covered(b) ==
    \E i \in 1..Len(tokens) : tokens[i].span.start <= b /\ b < tokens[i].span.end

\* the substrings named by the spans of the first n tokens, concatenated
RECURSIVE ConcatSpans(_)
ConcatSpans(n) ==
    IF n = 0 THEN <<>>
    ELSE ConcatSpans(n - 1) \o Slice(input, tokens[n].span.start, tokens[n].span.end)

\* the first n bytes of the text without the whitespace outside the tokens
RECURSIVE WithoutBlanks(_)
WithoutBlanks(n) ==
    IF n = 0 THEN <<>>
    ELSE IF ~Covered(n - 1) /\ is_whitespace(input[n]) THEN WithoutBlanks(n - 1)
    ELSE Append(WithoutBlanks(n - 1), input[n])

\* C14: the spans of the tokens are non-empty ranges within the text,
\* strictly increasing and non-overlapping, every byte outside them that
\* the lexer has passed is whitespace, and once the text is lexed the
\* substrings of the spans in order are the text without that whitespace.
C14_SpansTileText ==
    /\ \A i \in 1..Len(tokens) :
           /\ 0 <= tokens[i].span.start
           /\ tokens[i].span.start < tokens[i].span.end
           /\ tokens[i].span.end <= Len(input)
    /\ \A i \in 1..(Len(tokens) - 1) : tokens[i].span.end <= tokens[i + 1].span.start
    /\ \A b \in 0..(position - 1) : ~Covered(b) => is_whitespace(input[b + 1])
    /\ Parsed =>
           /\ position = Len(input)
           /\ ConcatSpans(Len(tokens)) = WithoutBlanks(Len(input))

\* a lexed text with blanks between the tokens and inside a string
C14_Witness ==
    /\ Parsed
    /\ Len(tokens) >= 4
    /\ \E i \in 1..Len(tokens) :
           tokens[i].kind = "String" /\ \E j \in 1..Len(tokens[i].text) :
               is_whitespace(tokens[i].text[j])
    /\ \E b \in 0..(Len(input) - 1) : ~Covered(b)
    /\ ~Covered(Len(input) - 1)

\* the character at byte b of the text begins a token that is not Illegal
StartsToken(b) ==
    \/ input[b + 1] \in {"=", "(", ")", "[", "]", "<", ">", ";", "-", "\""}
    \/ is_ascii_digit(input[b + 1])
    \/ is_alphabetic(input[b + 1])
    \/ input[b + 1] = "!" /\ peek(input, b + 1) = Some("=")

\* C15: the lexer never fails and finishes: while the text is being lexed
\* next() has a token, or has None with only whitespace left before the end
\* of the text, a call that returns a token appends it and
\* moves the cursor forward by at least one byte, within the text, the call
\* that returns None leaves the cursor at the end of the text, and a token
\* is Illegal, covering one character, exactly when the character it starts
\* at begins no token (a '!' not followed by '=' included).
C15_LexerTotal ==
    /\ [](~Parsed => \/ next(input, position).some
                      \/ /\ next(input, position) = None
                         /\ skip_whitespace(input, position) = Len(input))
    /\ [](\A i \in 1..Len(tokens) :
             /\ tokens[i].kind = "Illegal" <=> ~StartsToken(tokens[i].span.start)
             /\ tokens[i].kind = "Illegal" =>
                    tokens[i].span.end = tokens[i].span.start + 1)
    /\ [][/\ tokens' # tokens =>
                 /\ Len(tokens') = Len(tokens) + 1
                 /\ SubSeq(tokens', 1, Len(tokens)) = tokens
                 /\ position' >= position + 1
                 /\ position' <= Len(input)
                 /\ parse_result' = NoResult
          /\ parse_result' # parse_result =>
                 /\ tokens' = tokens
                 /\ position' = Len(input)]_vars

\* a lexed text with an Illegal token for a '!' that no '=' follows
C15_Witness ==
    /\ Parsed
    /\ position = Len(input)
    /\ \E i \in 1..Len(tokens) :
           /\ tokens[i].kind = "Illegal"
           /\ input[tokens[i].span.start + 1] = "!"

\* C17: a value written as a minus sign followed by a digit parses to a
\* Comparison, with the operator written (Eq when none is), whose value is
\* Literal::Number of the negative integer.
C17_NegativeNumberParses ==
    (Parsed /\ input \in NegativeTexts) =>
        /\ parse_result.st = "ok"
        /\ ParsedCondition \in
               {Comparison(op, LitNumber(0 - n)) : op \in {"Eq", "Gt"}, n \in 1..9}

\* k Not nodes around the condition c, and k negations of the expression e
RECURSIVE Nots(_, _)
Nots(k, c) == IF k = 0 THEN c ELSE Not(Nots(k - 1, c))

RECURSIVE ExprNots(_, _)
ExprNots(k, e) == IF k = 0 THEN e ELSE ExprNot(ExprNots(k - 1, e))

\* the primary of the texts of NotTexts and the query that holds it alone
OpenPrimary == Comparison("Eq", LitString(<<"O", "p", "e", "n">>))

PrimaryQuery ==
    Query(<<FieldFilter(parse_result.value.base_filters[1].field, OpenPrimary)>>, <<>>)

\* C19: a condition written with k >= 1 NOTs before a primary parses to k
\* nested Not nodes around the primary and compiles to k nested negations of
\* the compiled primary: no negation is simplified away.
C19_NegationsKept ==
    \A k \in 1..MaxNots :
        (Parsed /\ input = NotText(k)) =>
            /\ parse_result.st = "ok"
            /\ Len(parse_result.value.base_filters) = 1
            /\ parse_result.value.cross_filters = <<>>
            /\ ParsedCondition = Nots(k, OpenPrimary)
            /\ compile(Self, parse_result.value, entity).st = "ok"
            /\ compile(Self, parse_result.value, entity).sql.wheres =
                   <<ExprNots(k, compile(Self, PrimaryQuery, entity).sql.wheres[1])>>

\* the text with two NOTs is parsed to a double negation
C19_Witness ==
    /\ Parsed
    /\ input = NotText(2)
    /\ ParsedCondition = Not(Not(OpenPrimary))

(***************************************************************************)
(* Table mapping and statement assembly: a compiler whose table mapping is *)
(* installed by set_table_mapping / load_mapping_from_config and which     *)
(* then compiles a query with cross filters and keyword literals.          *)
(***************************************************************************)
\* TableMappingConfig::default (config.rs)
TableMappingConfigDefault ==
    [mappings |-> [e \in {"Test", "Run", "Project", "Task", "User", "Issue"} |->
                      CASE e = "Test" -> "tests"
                        [] e = "Run" -> "test_runs"
                        [] e = "Project" -> "projects"
                        [] e = "Task" -> "tasks"
                        [] e = "User" -> "users"
                        [] e = "Issue" -> "issues"]]

TableMappingConfigs == {TableMappingConfigDefault, [mappings |-> [e \in {"Run"} |-> "runs"]]}

\* DefaultTableMapper::load_mapping_from_config
load_mapping_from_config(config) ==
    /\ NotUsed
    /\ mappings' = config.mappings
    /\ UNCHANGED <<serviceVars, query, entity, optimizer_config, batch_config, result,
                   batch_result, in_len, lexVars>>

LoadMappingFromConfig == \E config \in TableMappingConfigs : load_mapping_from_config(config)

MapperLiterals ==
    {LitString("Open"), LitString("CURRENT_DATE"), LitString("CURRENT_USER"),
     LitString("CURRENT_DATE - INTERVAL '1 day'"), LitNumber(1),
     LitDate("today"), LitDate("yesterday"), LitDate("tomorrow"),
     LitDate("2023-12-25"), LitCurrentUser}

MapperConditions ==
    {Comparison(op, l) : op \in {"Eq", "Gt"}, l \in MapperLiterals}
        \cup {Not(Comparison("Eq", LitCurrentUser)),
              And(IsNotNull, Comparison("Lt", LitDate("today"))),
              And(In(NumberList(2)), In(NumberList(3))),
              Or(In(NumberList(3)), Not(In(NumberList(2))))}

MapperBaseFilters ==
    {<<>>,
     <<FieldFilter("status", Comparison("Eq", LitString("Open"))),
       FieldFilter("owner", Comparison("Eq", LitCurrentUser))>>,
     <<FieldFilter("status", In(NumberList(3))), FieldFilter("priority", In(NumberList(2)))>>}
        \cup {<<FieldFilter("created", c)>> : c \in MapperConditions}

RunCrossFilter ==
    CrossFilter("Issue", "Run", <<FieldFilter("status", Comparison("Eq", LitString("PASS")))>>)

IssueCrossFilter ==
    CrossFilter("Run", "Issue",
                <<FieldFilter("id", In(<<LitNumber(1), LitNumber(2)>>)),
                  FieldFilter("owner", Not(IsNull))>>)

EmptyCrossFilter == CrossFilter("Issue", "Run", <<>>)

PairCrossFilter ==
    CrossFilter("Issue", "Run",
                <<FieldFilter("result", In(NumberList(3))),
                  FieldFilter("build", In(NumberList(2)))>>)

MapperCrossFilters ==
    {<<>>, <<RunCrossFilter>>, <<IssueCrossFilter>>,
     <<RunCrossFilter, IssueCrossFilter>>, <<IssueCrossFilter, RunCrossFilter>>,
     <<EmptyCrossFilter, RunCrossFilter, RunCrossFilter>>,
     <<IssueCrossFilter, PairCrossFilter>>}

InitMapper ==
    /\ in_len = 0
    /\ \E bs \in MapperBaseFilters, cs \in MapperCrossFilters : query = Query(bs, cs)
    /\ entity \in Entities
    /\ optimizer_config = SqlCompilerNew.optimizer_config
    /\ batch_config = SqlCompilerNew.batch_config
    /\ mappings = EmptyMapping
    /\ result = NoResult
    /\ batch_result = NoResult
    /\ input = <<>>
    /\ position = 0
    /\ tokens = <<>>
    /\ parse_result = NoResult
    /\ Idle

NextMapper == SetTableMapping \/ LoadMappingFromConfig \/ SetOptimizationConfig \/ Compile

SpecMapper == InitMapper /\ [][NextMapper]_vars

(***************************************************************************)
(* Claims about table names, joins and literals, checked under SpecMapper. *)
(***************************************************************************)
\* a compile call has returned Ok
CompiledOk == result.st = "ok"

\* the columns a compiled predicate refers to
RECURSIVE Cols(_)
Cols(e) ==
    IF e.k \in {"cmp", "in", "is_null", "is_not_null"} THEN {e.col}
    ELSE IF e.k \in {"and", "or"} THEN Cols(e.left) \cup Cols(e.right)
    ELSE IF e.k = "not" THEN Cols(e.inner)
    ELSE {}

\* the fields of a list of filters, each qualified with the table tbl
QualifiedFields(filters, tbl) == {[tbl |-> tbl, col |-> f.field] : f \in Range(filters)}

\* the number of WHERE predicates in front of those of the cross filters
BaseWheres == IF query.base_filters = <<>> THEN 0 ELSE 1

WithLiteral(l) ==
    Query(<<FieldFilter(query.base_filters[1].field,
                        Comparison(query.base_filters[1].condition.op, l))>>,
          query.cross_filters)

\* the only base filter is a comparison with the literal l
ComparesWith(l) ==
    /\ Len(query.base_filters) = 1
    /\ query.base_filters[1].condition.tag = "Comparison"
    /\ query.base_filters[1].condition.value = l

\* C18: the date keywords and CurrentUser compile to expressions, not to
\* text: the predicate compiled from Date("today") differs from the one
\* compiled from String("CURRENT_DATE"), and the one from CurrentUser differs
\* from the one from String("CURRENT_USER").
C18_KeywordsAreNotText ==
    /\ (CompiledOk /\ ComparesWith(LitDate("today"))) =>
           result.sql.wheres[1] #
               compile(Self, WithLiteral(LitString("CURRENT_DATE")), entity).sql.wheres[1]
    /\ (CompiledOk /\ ComparesWith(LitCurrentUser)) =>
           result.sql.wheres[1] #
               compile(Self, WithLiteral(LitString("CURRENT_USER")), entity).sql.wheres[1]

\* table-name resolution under the mapping mp agrees with the mapping m
\* where m has an entry and lower-cases the entity name elsewhere
ResolvesAs(mp, m) ==
    \A e \in Entities :
        get_table_name(mp, e) = IF e \in DOMAIN m THEN m[e] ELSE to_lowercase(e)

\* C20: after set_table_mapping or load_mapping_from_config table names are
\* resolved by the mapping just installed alone (its entry, else the
\* lower-cased entity name; no entry of an earlier mapping is kept), and a
\* compile, which resolves names, leaves the mapping as it is and reads the
\* primary table from it.
C20_LastMappingResolves ==
    /\ [](CompiledOk => result.sql.from = get_table_name(mappings, entity))
    /\ [][/\ \A m \in TableMappings : set_table_mapping(m) => ResolvesAs(mappings', m)
          /\ \A config \in TableMappingConfigs :
                 load_mapping_from_config(config) => ResolvesAs(mappings', config.mappings)
          /\ Compile => mappings' = mappings]_vars

\* a compile under an installed mapping that has no entry for the entity
C20_Witness ==
    /\ CompiledOk
    /\ entity = "Run"
    /\ DOMAIN mappings = {"Issue"}
    /\ result.sql.from = "run"

(***************************************************************************)
(* CompilerRegistry (sql_compiler.rs): names mapped to constructors.  A    *)
(* constructor is named by the compiler it builds.                         *)
(***************************************************************************)
CompilerNames == {"sql", "default", "custom", "other"}
Factories == {"SqlCompiler::new", "CustomCompiler::new(a)", "CustomCompiler::new(b)"}

\* factory(): the boxed compiler, by QueryCompiler::name and its constructor
call_factory(factory) ==
    [name |-> IF factory = "SqlCompiler::new" THEN "SeaQuerySqlCompiler"
              ELSE "CustomCompiler",
     built_by |-> factory]

\* create that falls back to the "default" constructor for an unknown name
create_or_default(registry, name) ==
    IF name \in DOMAIN registry THEN Some(call_factory(registry[name]))
    ELSE Some(call_factory(registry["default"]))

\* CompilerRegistry::create
create(registry, name) ==
    IF name \in DOMAIN registry THEN Some(call_factory(registry[name])) ELSE None

\* CompilerRegistry::available_compilers, as a set (the Vec has the keys of
\* the HashMap in an unspecified order)
available_compilers(registry) == DOMAIN registry

\* CompilerRegistry::register
register(name, factory) ==
    /\ compilers' = insert(compilers, name, factory)
    /\ UNCHANGED <<query, entity, compilerVars, result, batch_result, in_len, lexVars,
                   created, calls>>

Register == \E name \in CompilerNames, factory \in Factories : register(name, factory)

Create ==
    \E name \in CompilerNames :
        /\ created' = [name |-> name, compiler |-> create(compilers, name)]
        /\ UNCHANGED <<query, entity, compilerVars, result, batch_result, in_len, lexVars,
                       compilers, calls>>

InitRegistry ==
    /\ in_len = 0
    /\ query = Query(<<>>, <<>>)
    /\ entity = "Issue"
    /\ optimizer_config = SqlCompilerNew.optimizer_config
    /\ batch_config = SqlCompilerNew.batch_config
    /\ mappings = EmptyMapping
    /\ result = NoResult
    /\ batch_result = NoResult
    /\ input = <<>>
    /\ position = 0
    /\ tokens = <<>>
    /\ parse_result = NoResult
    /\ Idle

NextRegistry == Register \/ Create

SpecRegistry == InitRegistry /\ [][NextRegistry]_vars

\* C21: create(name) returns a compiler exactly for "sql", "default" and
\* the registered names, built by the constructor registered last under the
\* name; a register changes what create returns for its name only and adds
\* the name to available_compilers; create leaves the registry unchanged.
C21_RegistryLookup ==
    /\ [](/\ {"sql", "default"} \subseteq available_compilers(compilers)
          /\ \A name \in CompilerNames :
                 create(compilers, name).some <=> name \in available_compilers(compilers))
    /\ [][/\ \A name \in CompilerNames, factory \in Factories :
                 register(name, factory) =>
                     /\ create(compilers', name) = Some(call_factory(factory))
                     /\ available_compilers(compilers') =
                            available_compilers(compilers) \cup {name}
                     /\ \A other \in CompilerNames \ {name} :
                            create(compilers', other) = create(compilers, other)
          /\ created' # created =>
                 /\ compilers' = compilers
                 /\ created'.compiler = create(compilers, created'.name)
                 /\ created'.compiler.some <=> created'.name \in DOMAIN compilers]_vars

\* "sql" was registered again with another constructor and then created,
\* and a name never registered was not
C21_Witness ==
    /\ created # NoResult
    /\ created.name = "sql"
    /\ created.compiler = Some(call_factory("CustomCompiler::new(b)"))
    /\ ~create(compilers, "other").some
    /\ available_compilers(compilers) = {"sql", "default", "custom"}

(***************************************************************************)
(* Interleaved compile calls.  Each call is QueryCompiler::compile on its  *)
(* own SqlCompiler (&self) with its own Query (moved in) and runs in the   *)
(* steps of the function body: the table name, the base filters, one turn  *)
(* of the loop per cross filter, the result.                               *)
(***************************************************************************)
MaxCalls == 2

CallCompilers ==
    {SqlCompilerNew,
     [optimizer_config |-> [max_or_conditions_for_in |-> 2, max_in_values |-> 1],
      batch_config |-> SqlCompilerNew.batch_config,
      mappings |-> [e \in Entities |-> IF e = "Issue" THEN "issues" ELSE "test_runs"]]}

CallQueries ==
    {Query(<<FieldFilter("status", Or(Comparison("Eq", LitNumber(1)),
                                      Comparison("Eq", LitNumber(2))))>>, <<>>),
     Query(<<FieldFilter("id", In(<<LitNumber(1), LitNumber(2)>>))>>, <<RunCrossFilter>>),
     Query(<<>>, <<RunCrossFilter, IssueCrossFilter>>)}

\* the locals of compile when it is entered
NewCall(compiler, q, ent) ==
    [compiler |-> compiler, query |-> q, entity |-> ent, pc |-> "start",
     table_name |-> "", base |-> NoResult,
     cross |-> [st |-> "ok", join_index |-> 0, joins |-> <<>>, wheres |-> <<>>,
                opts |-> <<>>],
     cursor |-> 0, result |-> NoResult]

\* one counter of joins for all the calls in progress
join_index_shared(i) == calls[1].cross.join_index + calls[Len(calls)].cross.join_index

\* `let mut join_index = 0`: the counter of joins is a local of the call
join_index_of(i) == calls[i].cross.join_index

\* a panic in a step ends the call
ended(call) ==
    IF call.base.st = "panic" \/ call.cross.st = "panic"
    THEN [call EXCEPT !.pc = "done", !.result = Panic]
    ELSE call

\* let table_name = self.table_mapper.get_table_name(entity)
CallStart(i) ==
    /\ calls[i].pc = "start"
    /\ calls' = [calls EXCEPT ![i] =
                     [@ EXCEPT !.pc = "base",
                               !.table_name = get_table_name(calls[i].compiler.mappings,
                                                             calls[i].entity)]]
    /\ UNCHANGED <<query, entity, compilerVars, result, batch_result, in_len, lexVars,
                   compilers, created>>

\* if !query.base_filters.is_empty() { compile_field_filters ... }
CallBase(i) ==
    /\ calls[i].pc = "base"
    /\ calls' = [calls EXCEPT ![i] =
                     ended([@ EXCEPT !.pc = "cross",
                                     !.base = IF Len(calls[i].query.base_filters) = 0
                                              THEN Ok(ExprTrue, <<>>)
                                              ELSE compile_field_filters(
                                                       calls[i].query.base_filters,
                                                       calls[i].entity,
                                                       calls[i].compiler)])]
    /\ UNCHANGED <<query, entity, compilerVars, result, batch_result, in_len, lexVars,
                   compilers, created>>

\* one turn of `for cross_filter in query.cross_filters`
CallCross(i) ==
    /\ calls[i].pc = "cross"
    /\ calls[i].cursor < Len(calls[i].query.cross_filters)
    /\ calls' = [calls EXCEPT ![i] =
                     ended([@ EXCEPT !.cursor = @ + 1,
                                     !.cross = cross_step(
                                         @,
                                         compile_cross_filter(
                                             calls[i].query.cross_filters[calls[i].cursor + 1],
                                             join_index_of(i), calls[i].compiler),
                                         get_table_name(
                                             calls[i].compiler.mappings,
                                             calls[i].query.cross_filters[calls[i].cursor + 1]
                                                 .target_entity),
                                         get_table_name(calls[i].compiler.mappings,
                                                        calls[i].entity))])]
    /\ UNCHANGED <<query, entity, compilerVars, result, batch_result, in_len, lexVars,
                   compilers, created>>

\* Ok(CompileResult { sql, optimizations })
CallReturn(i) ==
    /\ calls[i].pc = "cross"
    /\ calls[i].cursor = Len(calls[i].query.cross_filters)
    /\ calls' = [calls EXCEPT ![i] =
                     [@ EXCEPT !.pc = "done",
                               !.result = compile_result(calls[i].table_name,
                                                         Len(calls[i].query.base_filters) # 0,
                                                         calls[i].base, calls[i].cross)]]
    /\ UNCHANGED <<query, entity, compilerVars, result, batch_result, in_len, lexVars,
                   compilers, created>>

InitCalls ==
    /\ in_len = 0
    /\ query = Query(<<>>, <<>>)
    /\ entity = "Issue"
    /\ optimizer_config = SqlCompilerNew.optimizer_config
    /\ batch_config = SqlCompilerNew.batch_config
    /\ mappings = EmptyMapping
    /\ result = NoResult
    /\ batch_result = NoResult
    /\ input = <<>>
    /\ position = 0
    /\ tokens = <<>>
    /\ parse_result = NoResult
    /\ compilers = CompilerRegistryNew
    /\ created = NoResult
    /\ calls \in [1..MaxCalls -> {NewCall(c, q, "Issue") : c \in CallCompilers,
                                                            q \in CallQueries}]

NextCalls ==
    \E i \in 1..MaxCalls : CallStart(i) \/ CallBase(i) \/ CallCross(i) \/ CallReturn(i)

SpecCalls == InitCalls /\ [][NextCalls]_vars

\* C22: however the steps of the calls are interleaved, a call that has
\* returned has the statement and the log that compile gives for its
\* compiler, query and entity when run alone, and no step changes the
\* compiler (configuration and table mapping) or the AST of any call, or
\* anything of a call other than the one that takes the step.
C22_CallsAreIsolated ==
    /\ [](\A i \in 1..Len(calls) :
              calls[i].pc = "done" =>
                  calls[i].result =
                      compile(calls[i].compiler, calls[i].query, calls[i].entity))
    /\ [][/\ \A i \in 1..Len(calls) :
                 /\ calls'[i].compiler = calls[i].compiler
                 /\ calls'[i].query = calls[i].query
                 /\ calls'[i].entity = calls[i].entity
          /\ \E i \in 1..Len(calls) :
                 \A j \in 1..Len(calls) : j # i => calls'[j] = calls[j]]_vars

\* two calls with cross filters on different compilers have both returned
\* after steps that alternated
C22_Witness ==
    /\ Len(calls) >= 2
    /\ calls[1].pc = "done"
    /\ calls[2].pc = "done"
    /\ calls[1].compiler # calls[2].compiler
    /\ Len(calls[1].result.sql.joins) = 2
    /\ Len(calls[2].result.sql.joins) = 1
    /\ Len(calls[2].result.optimizations) = 1

(***************************************************************************)
(* Parser::new(&tokens).parse() on token sequences given directly: a       *)
(* sequence is put together from single tokens and from the token runs of  *)
(* a field filter and of the head of a cross filter.                       *)
(***************************************************************************)
MaxItems == 5

Items == {"Filter", "CrossFilter", "CrossHead", "FieldFilter", "Semicolon", "Illegal"}

\* the tokens of an item, their spans not yet set
ItemTokens(item) ==
    CASE item = "CrossHead" ->
             <<Punct("CrossFilter", 0, 0), Punct("Lt", 0, 0),
               Token("Identifier", <<"T", "-", "R">>, 0, Span(0, 0)), Punct("Gt", 0, 0)>>
      [] item = "FieldFilter" ->
             <<Token("Identifier", <<"s">>, 0, Span(0, 0)), Punct("LBracket", 0, 0),
               Token("Number", <<>>, 1, Span(0, 0)), Punct("RBracket", 0, 0)>>
      [] OTHER -> <<Punct(item, 0, 0)>>

RECURSIVE Flatten(_)
Flatten(items) ==
    IF Len(items) = 0 THEN <<>>
    ELSE Flatten(SubSeq(items, 1, Len(items) - 1)) \o ItemTokens(items[Len(items)])

\* the k-th token has the span of the k-th byte
Respan(ts) == [k \in 1..Len(ts) |-> [ts[k] EXCEPT !.span = Span(k - 1, k)]]

TokenSequences == {Respan(Flatten(items)) : items \in UNION {[1..n -> Items] : n \in 0..MaxItems}}

\* ts with an Illegal token put in front of the token at k (drop = 0) or in
\* its place (drop = 1)
Spoil(ts) ==
    {Respan(SubSeq(ts, 1, k) \o <<Punct("Illegal", 0, 0)>> \o SubSeq(ts, k + 1 + drop, Len(ts))) :
         k \in 0..(Len(ts) - 1), drop \in {0, 1}}
        \cup {Respan(Append(ts, Punct("Illegal", 0, 0)))}

\* the sequences that parse, each spoilt by one Illegal token
SpoiltSequences ==
    UNION {Spoil(ts) : ts \in {t \in TokenSequences : parse(t).st = "ok"}}

ParseTokens ==
    /\ parse_result = NoResult
    /\ parse_result' = parse(tokens)
    /\ UNCHANGED <<query, entity, compilerVars, result, batch_result, in_len, input,
                   position, tokens, serviceVars>>

InitTokens ==
    /\ in_len = 0
    /\ query = Query(<<>>, <<>>)
    /\ entity = "Issue"
    /\ optimizer_config = SqlCompilerNew.optimizer_config
    /\ batch_config = SqlCompilerNew.batch_config
    /\ mappings = EmptyMapping
    /\ result = NoResult
    /\ batch_result = NoResult
    /\ input = <<>>
    /\ position = 0
    /\ tokens \in TokenSequences \cup SpoiltSequences
    /\ parse_result = NoResult
    /\ Idle

NextTokens == ParseTokens

SpecTokens == InitTokens /\ [][NextTokens]_vars

(***************************************************************************)
(* Claims about the parser on token sequences, checked under SpecTokens.   *)
(***************************************************************************)
KindAt(pos) == IF pos < Len(tokens) THEN tokens[pos + 1].kind ELSE "end of input"

\* the field-filter sequence that starts at p
FiltersFrom(p) == parse_field_filters_until_semicolon_or_crossfilter(tokens, p)

\* the sequence result seq, for a sequence whose first field filter is ff
\* and ends at token q, is what the token at q and the one after it call for
EndsAsCalledFor(seq, ff, q, rest) ==
    IF KindAt(q) \in {"end of input", "CrossFilter"}
    THEN seq = ParseOk(<<ff>>, q)
    ELSE IF KindAt(q) = "Semicolon" /\ KindAt(q + 1) \in {"end of input", "CrossFilter"}
    THEN seq = ParseOk(<<ff>>, q + 1)
    ELSE IF KindAt(q) = "Semicolon"
    THEN /\ parse_field_filter(tokens, q + 1).st = "err" =>
                seq = parse_field_filter(tokens, q + 1)
         /\ seq = IF rest.st = "ok" THEN ParseOk(<<ff>> \o rest.value, rest.pos) ELSE rest
    ELSE /\ seq.st = "err"
         /\ seq.span = Some(tokens[q + 1].span)

\* C23: a field-filter sequence ends after a field filter on CrossFilter or
\* the end of the tokens, and after a semicolon that CrossFilter or the end
\* follows; after a semicolon that another token follows one more field
\* filter is parsed; any other token after a field filter is an error at
\* that token.
C23_SequenceEnds ==
    \A p \in 0..Len(tokens) :
        IF parse_field_filter(tokens, p).st = "ok"
        THEN EndsAsCalledFor(FiltersFrom(p), parse_field_filter(tokens, p).value,
                             parse_field_filter(tokens, p).pos,
                             FiltersFrom(parse_field_filter(tokens, p).pos + 1))
        ELSE FiltersFrom(p) = parse_field_filter(tokens, p)

\* parsed: a field filter, a semicolon, a second field filter and a
\* trailing semicolon
C23_Witness ==
    /\ Parsed
    /\ parse_result.st = "ok"
    /\ Len(parse_result.value.base_filters) = 2
    /\ tokens[Len(tokens)].kind = "Semicolon"
    /\ tokens[6].kind = "Semicolon"

(***************************************************************************)
(* More claims about the lexer, checked under SpecParse.                   *)
(***************************************************************************)
\* the text of the token t in the input
TokenText(t) == Slice(input, t.span.start, t.span.end)

\* the word w is Filter or CrossFilter, whatever the case of its letters
KeywordOf(w) ==
    IF eq_ignore_ascii_case(w, <<"F", "i", "l", "t", "e", "r">>) THEN "Filter"
    ELSE IF eq_ignore_ascii_case(w, <<"C", "r", "o", "s", "s", "F", "i", "l", "t", "e", "r">>)
    THEN "CrossFilter"
    ELSE "none"

\* C24: a Filter (CrossFilter) token is the word Filter (CrossFilter), in
\* any case, with the colon right after it inside the span; the same word
\* with no colon right after it is an Identifier; a token that starts at a
\* colon is Illegal.
C24_KeywordNeedsColon ==
    \A i \in 1..Len(tokens) :
        /\ tokens[i].kind \in {"Filter", "CrossFilter"} =>
               /\ Len(TokenText(tokens[i])) >= 2
               /\ TokenText(tokens[i])[Len(TokenText(tokens[i]))] = ":"
               /\ KeywordOf(SubSeq(TokenText(tokens[i]), 1, Len(TokenText(tokens[i])) - 1))
                      = tokens[i].kind
        /\ (is_alphabetic(input[tokens[i].span.start + 1])
                /\ KeywordOf(TokenText(tokens[i])) # "none") =>
               /\ tokens[i].kind = "Identifier"
               /\ tokens[i].text = TokenText(tokens[i])
               /\ peek(input, tokens[i].span.end) # Some(":")
        /\ (is_alphabetic(input[tokens[i].span.start + 1])
                /\ peek(input, tokens[i].span.end) = Some(":")) =>
               KeywordOf(TokenText(tokens[i])) = "none"
        /\ input[tokens[i].span.start + 1] = ":" =>
               /\ tokens[i].kind = "Illegal"
               /\ tokens[i].span.end = tokens[i].span.start + 1

\* lexed: the word CrossFilter, a blank and a colon
C24_Witness ==
    /\ Len(tokens) >= 2
    /\ tokens[1].kind = "Identifier"
    /\ KeywordOf(tokens[1].text) = "CrossFilter"
    /\ tokens[2].kind = "Illegal"
    /\ TokenText(tokens[2]) = <<":">>

(***************************************************************************)
(* More claims about the parser on token sequences (SpecTokens).           *)
(***************************************************************************)
HasIllegal == \E i \in 1..Len(tokens) : tokens[i].kind = "Illegal"

\* C25: for a token sequence that contains an Illegal token parse returns
\* Err, never a Query.
C25_IllegalIsRejected ==
    (Parsed /\ HasIllegal) => parse_result.st = "err"

\* parsed with an error: a sequence that parses but for the Illegal token
\* in it
C25_Witness ==
    /\ Parsed
    /\ HasIllegal
    /\ tokens \in SpoiltSequences
    /\ parse_result.st = "err"
    /\ \E i \in 1..Len(tokens) :
           tokens[i].kind = "Illegal" /\ parse_result.span = Some(tokens[i].span)

(***************************************************************************)
(* Claims about the optimization log of compile (SpecMapper).              *)
(***************************************************************************)
\* the log of the condition c of a field
LogOf(field, c) == compile_condition(field, c, optimizer_config).opts

\* the logs of the filters of a list, in the order of the list
RECURSIVE FiltersLog(_, _)
FiltersLog(filters, tbl) ==
    IF Len(filters) = 0 THEN <<>>
    ELSE FiltersLog(SubSeq(filters, 1, Len(filters) - 1), tbl)
             \o LogOf(Qualified(tbl, filters[Len(filters)].field),
                      filters[Len(filters)].condition)

\* the logs of the first n cross filters, in their order
RECURSIVE CrossLog(_)
CrossLog(n) ==
    IF n = 0 THEN <<>>
    ELSE CrossLog(n - 1) \o FiltersLog(query.cross_filters[n].filters, JoinedTable(n))

\* in the tree c the log of every And, and of every Or that is not turned
\* into IN, is the log of its left operand followed by that of its right
RECURSIVE LeftBeforeRight(_, _)
LeftBeforeRight(field, c) ==
    IF c.tag = "And" \/ (c.tag = "Or" /\ ~try_optimize_or_to_in(field, c, optimizer_config).some)
    THEN /\ LogOf(field, c) = LogOf(field, c.left) \o LogOf(field, c.right)
         /\ LeftBeforeRight(field, c.left)
         /\ LeftBeforeRight(field, c.right)
    ELSE IF c.tag \in {"Not", "Grouped"} THEN LeftBeforeRight(field, c.inner)
    ELSE TRUE

\* C26: the log of compile is in the order of the traversal: the entries
\* of the base filters, filter by filter, then those of the cross filters,
\* cross filter by cross filter and filter by filter, and in a condition
\* tree the entries of the left operand of And / Or before those of the
\* right operand.
C26_LogInTraversalOrder ==
    CompiledOk =>
        /\ result.optimizations =
               FiltersLog(query.base_filters, TableRef(get_table_name(mappings, entity)))
                   \o CrossLog(Len(query.cross_filters))
        /\ \A i \in 1..Len(query.base_filters) :
               LeftBeforeRight(Qualified(TableRef(get_table_name(mappings, entity)),
                                         query.base_filters[i].field),
                               query.base_filters[i].condition)
        /\ \A n \in 1..Len(query.cross_filters) :
               \A i \in 1..Len(query.cross_filters[n].filters) :
                   LeftBeforeRight(Qualified(JoinedTable(n),
                                             query.cross_filters[n].filters[i].field),
                                   query.cross_filters[n].filters[i].condition)

\* a log with two entries of one And in a base filter, then one entry of
\* the first cross filter and two of the second
C26_Witness ==
    /\ CompiledOk
    /\ Len(query.base_filters) = 1
    /\ query.base_filters[1].condition.tag = "And"
    /\ Len(result.optimizations) = 5
    /\ result.optimizations[1].total_values = 2
    /\ result.optimizations[2].total_values = 3
    /\ result.optimizations[3].field.tbl = JoinedTable(1)
    /\ result.optimizations[4].field = Qualified(JoinedTable(2), "result")
    /\ result.optimizations[5].field = Qualified(JoinedTable(2), "build")

(***************************************************************************)
(* Claims about the shape of the accepted token sequences and about the    *)
(* cursor of the parser, checked under SpecTokens.                         *)
(***************************************************************************)
\* the positions of the tokens of the kind
TokensOf(kind) == {i \in 1..Len(tokens) : tokens[i].kind = kind}

\* C27: an accepted token sequence is at most one Filter clause, which is
\* first, and then CrossFilter clauses only; a Filter token after a field
\* filter, with or without a semicolon between them, makes parse fail; and
\* the Filter clause and every CrossFilter of the Query have a field filter.
C27_ClauseShape ==
    Parsed =>
        /\ parse_result.st = "ok" =>
               /\ TokensOf("Filter") \subseteq {1}
               /\ Len(tokens) > 0 => tokens[1].kind \in {"Filter", "CrossFilter"}
               /\ Len(parse_result.value.cross_filters) = Cardinality(TokensOf("CrossFilter"))
               /\ \A n \in 1..Len(parse_result.value.cross_filters) :
                      Len(parse_result.value.cross_filters[n].filters) >= 1
               /\ (Len(parse_result.value.base_filters) >= 1) = (TokensOf("Filter") = {1})
        /\ \A i \in TokensOf("Filter") :
               ((i > 1 /\ tokens[i - 1].kind = "RBracket")
                    \/ (i > 2 /\ tokens[i - 1].kind = "Semicolon"
                              /\ tokens[i - 2].kind = "RBracket"))
                   => parse_result.st = "err"

\* parsed: a Filter clause with one field filter and one CrossFilter clause
C27_Witness ==
    /\ Parsed
    /\ parse_result.st = "ok"
    /\ Len(tokens) > 0
    /\ tokens[1].kind = "Filter"
    /\ Len(parse_result.value.base_filters) = 1
    /\ Len(parse_result.value.cross_filters) = 1
    /\ Len(parse_result.value.cross_filters[1].filters) = 1

\* a result r of parsing from the cursor p consumed a token and stayed
\* within the tokens
Consumed(r, p) == r.st = "ok" => (p < r.pos /\ r.pos <= Len(tokens))

\* C28: the cursor never goes back and never passes the number of tokens;
\* an iteration of the loop of parse (a clause) and of the field-filter
\* sequence (a field filter) that does not fail consumes a token; and
\* when parse returns Ok the cursor is the number of tokens.
C28_CursorAdvances ==
    /\ \A p \in 0..Len(tokens) :
           /\ p <= advance(tokens, p)
           /\ advance(tokens, p) <= Len(tokens)
           /\ Consumed(parse_field_filter(tokens, p), p)
           /\ Consumed(FiltersFrom(p), p)
           /\ Consumed(parse_cross_filter(tokens, p), p)
    /\ (Parsed /\ parse_result.st = "ok") => parse_result.pos = Len(tokens)

\* parsed to the last token: two CrossFilter clauses
C28_Witness ==
    /\ Parsed
    /\ parse_result.st = "ok"
    /\ parse_result.pos = Len(tokens)
    /\ Len(parse_result.value.cross_filters) = 2
    /\ tokens[Len(tokens)].kind = "RBracket"

(***************************************************************************)
(* A claim about the totality of compile, checked under SpecCompile.       *)
(***************************************************************************)
\* C29: compile is total: whatever the query and the optimization
\* configuration, max_or_conditions_for_in = 0 and max_in_values = 0
\* included, it returns Ok with a statement and never aborts.
C29_CompileIsTotal == result # NoResult => result.st = "ok"

(***************************************************************************)
(* A claim about the value of Number tokens, checked under SpecParse.      *)
(***************************************************************************)
\* the decimal digits of the natural number n
RECURSIVE ToDigits(_)
ToDigits(n) ==
    IF n < 10 THEN <<Digits[n + 1]>>
    ELSE Append(ToDigits(n \div 10), Digits[(n % 10) + 1])

\* C30: a Number token spans a whole run of digits and its value is the
\* decimal value of the run, also when the run is beyond the range of a
\* 64-bit signed integer: the digits of the value are the digits of the
\* run, leading zeros apart.
C30_NumberKeepsValue ==
    \A i \in 1..Len(tokens) :
        tokens[i].kind = "Number" =>
            /\ \A k \in 1..Len(TokenText(tokens[i])) : is_ascii_digit(TokenText(tokens[i])[k])
            /\ peek(input, tokens[i].span.end).some =>
                   ~is_ascii_digit(peek(input, tokens[i].span.end).v)
            /\ ToDigits(tokens[i].value) = strip_zeros(TokenText(tokens[i]))

====
